---- MODULE Spec2Model ----
(***************************************************************************)
(* GPN Prompt Library: the entry store held by App (prompts), its derived  *)
(* views (filteredPrompts, paginatedPrompts, the page-clamp effect), the   *)
(* entry editor (PromptModal) and the spreadsheet import.                  *)
(*                                                                         *)
(* Strings the code inspects (prompt, model, tags, search term) are        *)
(* sequences of one-character strings, so that trim, toLowerCase and       *)
(* includes are computed.  Image data and ids are opaque tokens.           *)
(* "undefined" stands for JavaScript's undefined.                          *)
(***************************************************************************)
EXTENDS Integers, Sequences, FiniteSets, TLC

VARIABLES
    prompts,          \* App: the store, a sequence of PromptEntry
    isModalOpen,      \* App
    editingPrompt,    \* App: the entry being edited, NullEntry for null
    prompt,           \* PromptModal: staged prompt text
    beforeImage,      \* PromptModal: staged before image
    afterImage,       \* PromptModal: staged after image
    model,            \* PromptModal: staged model name
    parameters,       \* PromptModal: staged parameter rows
    tags,             \* PromptModal: staged tag list
    tagInput,         \* PromptModal: pending tag text
    errors,           \* PromptModal: the keys of the errors object
    searchTerm,       \* App
    selectedTags,     \* App
    currentPage,      \* App
    selectedIds,      \* App
    currentView,      \* App
    importPc,         \* handleImportFromExcel: where the asynchronous import stands
    importedPrompts,  \* handleImportFromExcel: the parsed entries it holds
    now,              \* the wall clock read by new Date()
    nextId,           \* the ids generateId / crypto.randomUUID have handed out
    viewer,           \* ImageViewer: whether it is mounted, and its state
    pdfExport,        \* generatePDF: where the asynchronous export stands, and its entry
    imageLoads,       \* ImageInput: the file reads and URL fetches still in flight
    last              \* the handler that ran last, and what it was given

vars == <<prompts, isModalOpen, editingPrompt, prompt, beforeImage, afterImage,
          model, parameters, tags, tagInput, errors, searchTerm, selectedTags,
          currentPage, selectedIds, currentView, importPc, importedPrompts,
          now, nextId, imageLoads, pdfExport, viewer, last>>

modalVars == <<prompt, beforeImage, afterImage, model, parameters, tags, tagInput, errors>>
filterVars == <<searchTerm, selectedTags, currentView>>
importVars == <<importPc, importedPrompts>>

(***************************************************************************)
(* Bounds of the model.                                                    *)
(***************************************************************************)
MaxPrompts == 2      \* entries the editor may add to the store
MaxClock == 2        \* clock readings 1..MaxClock
MaxRows == 2         \* data rows of an imported worksheet
MaxIds == 2          \* ids generateId and crypto.randomUUID hand out

ITEMS_PER_PAGE == 12

Undefined == "undefined"

(***************************************************************************)
(* JavaScript string and array primitives, on sequences of characters.     *)
(***************************************************************************)
IsWhiteSpace(c) == c \in {" ", "\t", "\n", "\r"}

RECURSIVE TrimStart(_)
TrimStart(s) ==
    IF s # <<>> /\ IsWhiteSpace(Head(s)) THEN TrimStart(Tail(s)) ELSE s

RECURSIVE TrimEnd(_)
TrimEnd(s) ==
    IF s # <<>> /\ IsWhiteSpace(s[Len(s)]) THEN TrimEnd(SubSeq(s, 1, Len(s) - 1)) ELSE s

Trim(s) == TrimEnd(TrimStart(s))

UpperLetters ==
    <<"A", "B", "C", "D", "E", "F", "G", "H", "I", "J", "K", "L", "M",
      "N", "O", "P", "Q", "R", "S", "T", "U", "V", "W", "X", "Y", "Z">>
LowerLetters ==
    <<"a", "b", "c", "d", "e", "f", "g", "h", "i", "j", "k", "l", "m",
      "n", "o", "p", "q", "r", "s", "t", "u", "v", "w", "x", "y", "z">>

LowerChar(c) ==
    IF \E i \in 1..26 : UpperLetters[i] = c
    THEN LowerLetters[CHOOSE i \in 1..26 : UpperLetters[i] = c]
    ELSE c

ToLowerCase(s) == [i \in 1..Len(s) |-> LowerChar(s[i])]

\* s.includes(sub)
Includes(s, sub) ==
    \E k \in 0..(Len(s) - Len(sub)) :
        \A i \in 1..Len(sub) : s[k + i] = sub[i]

\* arr.includes(x)
ArrayIncludes(arr, x) == \E i \in 1..Len(arr) : arr[i] = x

\* arr.slice(start, end), 0-based, end exclusive, both clamped to the length
Slice(arr, start, end) ==
    LET lo == IF start > Len(arr) THEN Len(arr) ELSE start
        hi == IF end > Len(arr) THEN Len(arr) ELSE end
    IN  IF hi <= lo THEN <<>> ELSE SubSeq(arr, lo + 1, hi)

\* Math.ceil(a / b) for a >= 0, b > 0
CeilDiv(a, b) == (a + b - 1) \div b

(***************************************************************************)
(* PromptEntry (types.ts).                                                 *)
(***************************************************************************)
Truthy(x) == x = "true"
Not(x) == IF Truthy(x) THEN "false" ELSE "true"
HasImage(img) == img # Undefined

NullEntry ==
    [id |-> 0, beforeImage |-> Undefined, afterImage |-> Undefined, prompt |-> <<>>,
     model |-> <<>>, parameters |-> <<>>, tags |-> <<>>, createdAt |-> 0,
     isFavorite |-> Undefined]

Ids(ps) == {ps[i].id : i \in 1..Len(ps)}

(***************************************************************************)
(* Derived views (App).  createdAt is held as the millisecond reading      *)
(* that new Date(createdAt).getTime() gives for the stored ISO string.     *)
(***************************************************************************)
RECURSIVE UnionOfTags(_)
UnionOfTags(ps) ==
    IF ps = <<>> THEN {}
    ELSE {Head(ps).tags[i] : i \in 1..Len(Head(ps).tags)} \cup UnionOfTags(Tail(ps))

\* the set of the tags of all entries; the code returns it sorted
allTags(ps) == UnionOfTags(ps)

ModelPresent(m) == m # <<Undefined>> /\ m # <<>>

MatchesSearch(p, st) ==
    LET searchLower == ToLowerCase(st)
    IN  \/ Includes(ToLowerCase(p.prompt), searchLower)
        \/ (ModelPresent(p.model) /\ Includes(ToLowerCase(p.model), searchLower))
        \/ \E i \in 1..Len(p.tags) : Includes(ToLowerCase(p.tags[i]), searchLower)

\* mutation of MatchesTags: every selected tag must be on the entry
MatchesTagsAll(p, selTags) ==
    \A t \in selTags : \E i \in 1..Len(p.tags) : p.tags[i] = t

MatchesTags(p, selTags) ==
    \/ Cardinality(selTags) = 0
    \/ \E i \in 1..Len(p.tags) : p.tags[i] \in selTags

FilterKeeps(p, view, st, selTags) ==
    IF view = "favorites" /\ ~Truthy(p.isFavorite) THEN FALSE
    ELSE MatchesSearch(p, st) /\ MatchesTags(p, selTags)

\* mutation of CompareCreatedAt: oldest first
CompareCreatedAtAscending(a, b) == a.createdAt - b.createdAt

\* the comparator handed to sort: negative when a goes first
CompareCreatedAt(a, b) == b.createdAt - a.createdAt

\* Array.prototype.sort is stable: e goes behind every element that does not
\* compare greater than it
RECURSIVE InsertSorted(_, _)
InsertSorted(s, e) ==
    IF s = <<>> THEN <<e>>
    ELSE IF CompareCreatedAt(Head(s), e) <= 0
         THEN <<Head(s)>> \o InsertSorted(Tail(s), e)
         ELSE <<e>> \o s

RECURSIVE SortFrom(_, _)
SortFrom(acc, rest) ==
    IF rest = <<>> THEN acc ELSE SortFrom(InsertSorted(acc, Head(rest)), Tail(rest))

SortByCreatedAt(s) == SortFrom(<<>>, s)

filteredPrompts(ps, view, st, selTags) ==
    SortByCreatedAt(SelectSeq(ps, LAMBDA p : FilterKeeps(p, view, st, selTags)))

totalPages(fp) == CeilDiv(Len(fp), ITEMS_PER_PAGE)

\* mutation of paginatedPrompts: a page runs one entry into the next
paginatedPromptsOverlapping(fp, page) ==
    LET startIndex == (page - 1) * ITEMS_PER_PAGE
    IN  Slice(fp, startIndex, startIndex + ITEMS_PER_PAGE + 1)

paginatedPrompts(fp, page) ==
    LET startIndex == (page - 1) * ITEMS_PER_PAGE
    IN  Slice(fp, startIndex, startIndex + ITEMS_PER_PAGE)

\* the useEffect on [currentPage, totalPages]; it runs again on the page it
\* sets, and then changes nothing
PageEffect(page, total) ==
    IF page > total /\ total > 0 THEN total
    ELSE IF page = 0 /\ total > 0 THEN 1
    ELSE page

\* the page the effect leaves after a render with these values
PageAfter(page, ps, view, st, selTags) ==
    PageEffect(page, totalPages(filteredPrompts(ps, view, st, selTags)))

Filtered == filteredPrompts(prompts, currentView, searchTerm, selectedTags)
Shown == IF currentView = "report" THEN <<>> ELSE paginatedPrompts(Filtered, currentPage)
ShownEntries == {Shown[i] : i \in 1..Len(Shown)}

(***************************************************************************)
(* The store operations (App).                                             *)
(***************************************************************************)
\* prev.findIndex(p => p.id === id), 1-based, 0 for -1
FindIndex(prev, id) ==
    IF \E i \in 1..Len(prev) : prev[i].id = id
    THEN CHOOSE i \in 1..Len(prev) :
            /\ prev[i].id = id
            /\ \A j \in 1..(i - 1) : prev[j].id # id
    ELSE 0

\* mutation of SavePrompt: the saved entry moves to the front
SavePromptMovesToFront(prev, entry) ==
    <<entry>> \o SelectSeq(prev, LAMBDA p : p.id # entry.id)

\* mutation of SavePrompt: a new entry goes to the end
SavePromptAppends(prev, entry) ==
    IF \E i \in 1..Len(prev) : prev[i].id = entry.id
    THEN [i \in 1..Len(prev) |-> IF prev[i].id = entry.id THEN entry ELSE prev[i]]
    ELSE Append(prev, entry)

\* the updater of handleSavePrompt
SavePrompt(prev, entry) ==
    LET existingIndex == FindIndex(prev, entry.id)
    IN  IF existingIndex > 0
        THEN [prev EXCEPT ![existingIndex] = entry]
        ELSE <<entry>> \o prev

\* mutation of DeletePrompt: only the first entry with the id goes
DeletePromptFirstOnly(prev, id) ==
    IF \E i \in 1..Len(prev) : prev[i].id = id
    THEN LET k == CHOOSE i \in 1..Len(prev) :
                    prev[i].id = id /\ \A j \in 1..(i - 1) : prev[j].id # id
         IN  SubSeq(prev, 1, k - 1) \o SubSeq(prev, k + 1, Len(prev))
    ELSE prev

\* the updater of handleDeletePrompt
DeletePrompt(prev, id) == SelectSeq(prev, LAMBDA p : p.id # id)

\* mutation of BulkDelete: of the entries with one id only the first goes
BulkDeleteFirstOfEach(prev, ids) ==
    SelectSeq([i \in 1..Len(prev) |->
                  IF prev[i].id \in ids /\ \A j \in 1..(i - 1) : prev[j].id # prev[i].id
                  THEN [prev[i] EXCEPT !.id = 0]
                  ELSE prev[i]],
              LAMBDA p : p.id # 0)

\* the updater of handleBulkDelete
BulkDelete(prev, ids) == SelectSeq(prev, LAMBDA p : p.id \notin ids)

\* mutation of ToggleFavorite: the star only ever switches on
ToggleFavoriteSets(prev, id) ==
    [i \in 1..Len(prev) |->
        IF prev[i].id = id THEN [prev[i] EXCEPT !.isFavorite = "true"] ELSE prev[i]]

\* the updater of handleToggleFavorite
ToggleFavorite(prev, id) ==
    [i \in 1..Len(prev) |->
        IF prev[i].id = id
        THEN [prev[i] EXCEPT !.isFavorite = Not(prev[i].isFavorite)]
        ELSE prev[i]]

(***************************************************************************)
(* The entry editor (PromptModal).                                         *)
(***************************************************************************)
\* mutation of ValidationErrors: the images are not looked at
ValidationErrorsPromptOnly(p, before, after) ==
    IF Trim(p) = <<>> THEN {"prompt"} ELSE {}

\* mutation of ValidationErrors: the prompt is tested without trim()
ValidationErrorsUntrimmed(p, before, after) ==
    (IF p = <<>> THEN {"prompt"} ELSE {})
        \cup (IF ~HasImage(before) /\ ~HasImage(after) THEN {"image"} ELSE {})

\* the keys handleSave puts in currentErrors
ValidationErrors(p, before, after) ==
    (IF Trim(p) = <<>> THEN {"prompt"} ELSE {})
        \cup (IF ~HasImage(before) /\ ~HasImage(after) THEN {"image"} ELSE {})

FinalTagsUntrimmed(ts, input) ==
    IF input # <<>> /\ ~ArrayIncludes(ts, input) THEN Append(ts, input) ELSE ts

FinalTags(ts, input) ==
    IF Trim(input) # <<>> /\ ~ArrayIncludes(ts, Trim(input))
    THEN Append(ts, Trim(input))
    ELSE ts

KeptParametersWithValue(params) ==
    SelectSeq(params, LAMBDA p : Trim(p.key) # <<>> /\ Trim(p.value) # <<>>)

KeptParameters(params) == SelectSeq(params, LAMBDA p : Trim(p.key) # <<>>)

\* initialData?.id || generateId()
NewEntryId(initialData, fresh) ==
    IF initialData.id # 0 THEN initialData.id ELSE fresh

\* initialData?.createdAt || new Date().toISOString()
NewEntryCreatedAt(initialData, t) ==
    IF initialData.createdAt # 0 THEN initialData.createdAt ELSE t

\* the object literal of handleSave: it has no isFavorite key
NewEntry ==
    [id |-> NewEntryId(editingPrompt, nextId),
     prompt |-> prompt,
     beforeImage |-> beforeImage,
     afterImage |-> afterImage,
     model |-> model,
     parameters |-> KeptParameters(parameters),
     tags |-> FinalTags(tags, tagInput),
     createdAt |-> NewEntryCreatedAt(editingPrompt, now),
     isFavorite |-> Undefined]

\* what the handler that ran last was given
Last(op, id, flag, entry) == [op |-> op, id |-> id, flag |-> flag, entry |-> entry]

(***************************************************************************)
(* ImageViewer.  The scale is counted in hundredths (100 is 1, 10 is the   *)
(* wheel step 0.1, 25 is the button step 0.25), a point is <<x, y>>.       *)
(***************************************************************************)
MinScale == 50
MaxScale == 500

\* the useState initial values of an ImageViewer and its props; the card
\* renders it only while viewerImage is set, with isOpen = !!viewerImage
ViewerMounted(imageUrl) ==
    [isOpen |-> imageUrl # Undefined, imageUrl |-> imageUrl, scale |-> 100,
     position |-> <<0, 0>>, isDragging |-> FALSE, dragStart |-> <<0, 0>>]

ClampScaleBelow(s) == IF s < 25 THEN 25 ELSE IF s > MaxScale THEN MaxScale ELSE s

\* Math.min(Math.max(0.5, s), 5)
ClampScale(s) == IF s < MinScale THEN MinScale ELSE IF s > MaxScale THEN MaxScale ELSE s

\* a handler of the viewer: it leaves the application's state alone
ViewerStep(next, op, id) ==
    /\ viewer' = next
    /\ last' = Last(op, id, next.isDragging, NullEntry)
    /\ UNCHANGED <<prompts, isModalOpen, editingPrompt, modalVars, filterVars, currentPage,
                   selectedIds, importVars, now, nextId, imageLoads, pdfExport>>

\* an image of the card of entry is clicked: if the entry has that image,
\* setViewerImage mounts the viewer with isOpen true, and its effect on
\* isOpen sets the scale and the position
OpenViewer(entry, slot) ==
    /\ ~viewer.isOpen
    /\ IF entry[slot] # Undefined
       THEN ViewerStep([ViewerMounted(entry[slot]) EXCEPT !.scale = 100,
                                                          !.position = <<0, 0>>],
                       "openViewer", entry.id)
       ELSE ViewerStep(viewer, "imageClick", entry.id)

\* onClose: setViewerImage(null), and the card no longer renders the viewer
CloseViewer ==
    /\ viewer.isOpen
    /\ ViewerStep(ViewerMounted(Undefined), "closeViewer", 0)

\* handleWheel
HandleWheel(deltaY) ==
    LET delta == IF deltaY > 0 THEN -10 ELSE 10
        newScale == ClampScale(viewer.scale + delta)
    IN  ViewerStep([viewer EXCEPT !.scale = newScale], "wheel", 0)

\* handleMouseDown
HandleMouseDown(button, client) ==
    IF button = 0
    THEN ViewerStep([viewer EXCEPT !.isDragging = TRUE,
                                   !.dragStart = <<client[1] - viewer.position[1],
                                                   client[2] - viewer.position[2]>>],
                    "mouseDown", button)
    ELSE ViewerStep(viewer, "mouseDown", button)

\* handleMouseMove
HandleMouseMove(client) ==
    IF viewer.isDragging
    THEN ViewerStep([viewer EXCEPT !.position = <<client[1] - viewer.dragStart[1],
                                                  client[2] - viewer.dragStart[2]>>],
                    "mouseMove", 0)
    ELSE ViewerStep(viewer, "mouseMove", 0)

\* handleMouseUp, also the container's onMouseLeave
HandleMouseUp == ViewerStep([viewer EXCEPT !.isDragging = FALSE], "mouseUp", 0)

\* handleZoomIn: Math.min(prev + 0.25, 5)
HandleZoomIn ==
    ViewerStep([viewer EXCEPT !.scale = IF @ + 25 < MaxScale THEN @ + 25 ELSE MaxScale],
               "zoomIn", 0)

\* handleZoomOut: Math.max(prev - 0.25, 0.5)
HandleZoomOut ==
    ViewerStep([viewer EXCEPT !.scale = IF @ - 25 > MinScale THEN @ - 25 ELSE MinScale],
               "zoomOut", 0)

\* handleReset
HandleReset == ViewerStep([viewer EXCEPT !.scale = 100, !.position = <<0, 0>>], "reset", 0)

\* the window's keydown listener
HandleKeyDown(key) ==
    /\ viewer.isOpen
    /\ \/ key = "Escape" /\ CloseViewer
       \/ key \in {"+", "="} /\ HandleZoomIn
       \/ key \in {"-", "_"} /\ HandleZoomOut
       \/ key = "0" /\ HandleReset
       \/ key \notin {"Escape", "+", "=", "-", "_", "0"} /\ ViewerStep(viewer, "key", 0)

\* handleOpenModal, and the effect that runs resetState once isOpen is true;
\* the loads still in flight are noted as started in an earlier session
HandleOpenModal(entry) ==
    /\ editingPrompt' = entry
    /\ isModalOpen' = TRUE
    /\ prompt' = entry.prompt
    /\ beforeImage' = entry.beforeImage
    /\ afterImage' = entry.afterImage
    /\ model' = (IF entry.model = <<Undefined>> THEN <<>> ELSE entry.model)
    /\ parameters' = entry.parameters
    /\ tags' = entry.tags
    /\ tagInput' = <<>>
    /\ errors' = {}
    /\ last' = Last("ui", 0, FALSE, NullEntry)
    /\ imageLoads' = {[l EXCEPT !.earlierSession = TRUE] : l \in imageLoads}
    /\ UNCHANGED <<viewer, pdfExport, prompts, filterVars, currentPage, selectedIds, importVars, now, nextId>>

HandleCloseModal ==
    /\ isModalOpen
    /\ isModalOpen' = FALSE
    /\ editingPrompt' = NullEntry
    /\ last' = Last("ui", 0, FALSE, NullEntry)
    /\ UNCHANGED <<viewer, pdfExport, imageLoads, prompts, modalVars, filterVars, currentPage, selectedIds, importVars,
                   now, nextId>>

\* the textarea's onChange
SetPrompt(v) ==
    /\ isModalOpen
    /\ prompt' = v
    /\ last' = Last("ui", 0, FALSE, NullEntry)
    /\ UNCHANGED <<viewer, pdfExport, imageLoads, prompts, isModalOpen, editingPrompt, beforeImage, afterImage, model,
                   parameters, tags, tagInput, errors, filterVars, currentPage,
                   selectedIds, importVars, now, nextId>>

\* ImageInput's onImageChange for the before (setBeforeImage) or after image
OnImageChange(slot, img) ==
    /\ isModalOpen
    /\ beforeImage' = (IF slot = "before" THEN img ELSE beforeImage)
    /\ afterImage' = (IF slot = "after" THEN img ELSE afterImage)
    /\ last' = Last("ui", 0, FALSE, NullEntry)
    /\ UNCHANGED <<viewer, pdfExport, imageLoads, prompts, isModalOpen, editingPrompt, prompt, model, parameters, tags,
                   tagInput, errors, filterVars, currentPage, selectedIds, importVars,
                   now, nextId>>

\* handleTagInputChange
HandleTagInputChange(v) ==
    /\ isModalOpen
    /\ tagInput' = v
    /\ last' = Last("ui", 0, FALSE, NullEntry)
    /\ UNCHANGED <<viewer, pdfExport, imageLoads, prompts, isModalOpen, editingPrompt, prompt,
                   beforeImage, afterImage, model, parameters, tags, errors, filterVars,
                   currentPage, selectedIds, importVars, now, nextId>>

\* the tag list handleTagInputKeyDown sets for ',' or 'Enter'
AddTag(ts, input) ==
    IF Trim(input) # <<>> /\ ~ArrayIncludes(ts, Trim(input))
    THEN Append(ts, Trim(input))
    ELSE ts

\* handleTagInputKeyDown for ',' or 'Enter'
HandleTagInputKeyDown ==
    /\ isModalOpen
    /\ tags' = AddTag(tags, tagInput)
    /\ tagInput' = <<>>
    /\ last' = Last("ui", 0, FALSE, NullEntry)
    /\ UNCHANGED <<viewer, pdfExport, imageLoads, prompts, isModalOpen, editingPrompt, prompt,
                   beforeImage, afterImage, model, parameters, errors, filterVars,
                   currentPage, selectedIds, importVars, now, nextId>>

\* removeTag
RemoveTag(tagToRemove) ==
    /\ isModalOpen
    /\ tags' = SelectSeq(tags, LAMBDA tag : tag # tagToRemove)
    /\ last' = Last("ui", 0, FALSE, NullEntry)
    /\ UNCHANGED <<viewer, pdfExport, imageLoads, prompts, isModalOpen, editingPrompt, prompt,
                   beforeImage, afterImage, model, parameters, tagInput, errors, filterVars,
                   currentPage, selectedIds, importVars, now, nextId>>

\* addParameter; fresh stands for generateId()
AddParameter(fresh) ==
    /\ isModalOpen
    /\ parameters' = Append(parameters, [id |-> fresh, key |-> <<>>, value |-> <<>>])
    /\ last' = Last("ui", 0, FALSE, NullEntry)
    /\ UNCHANGED <<viewer, pdfExport, imageLoads, prompts, isModalOpen, editingPrompt, prompt,
                   beforeImage, afterImage, model, tags, tagInput, errors, filterVars,
                   currentPage, selectedIds, importVars, now, nextId>>

\* updateParameter
UpdateParameter(id, field, value) ==
    /\ isModalOpen
    /\ parameters' = [i \in 1..Len(parameters) |->
                        IF parameters[i].id = id
                        THEN [parameters[i] EXCEPT ![field] = value]
                        ELSE parameters[i]]
    /\ last' = Last("ui", 0, FALSE, NullEntry)
    /\ UNCHANGED <<viewer, pdfExport, imageLoads, prompts, isModalOpen, editingPrompt, prompt,
                   beforeImage, afterImage, model, tags, tagInput, errors, filterVars,
                   currentPage, selectedIds, importVars, now, nextId>>

\* removeParameter
RemoveParameter(id) ==
    /\ isModalOpen
    /\ parameters' = SelectSeq(parameters, LAMBDA p : p.id # id)
    /\ last' = Last("ui", 0, FALSE, NullEntry)
    /\ UNCHANGED <<viewer, pdfExport, imageLoads, prompts, isModalOpen, editingPrompt, prompt,
                   beforeImage, afterImage, model, tags, tagInput, errors, filterVars,
                   currentPage, selectedIds, importVars, now, nextId>>

\* handleSave; on success onSave (handleSavePrompt) and onClose (handleCloseModal)
HandleSave ==
    /\ isModalOpen
    /\ LET currentErrors == ValidationErrors(prompt, beforeImage, afterImage)
           newEntry == NewEntry
       IN  IF currentErrors # {}
           THEN /\ errors' = currentErrors
                /\ last' = Last("saveRejected", 0, FALSE, NullEntry)
                /\ UNCHANGED <<prompts, isModalOpen, editingPrompt, prompt, beforeImage,
                               afterImage, model, parameters, tags, tagInput,
                               currentPage, nextId>>
           ELSE /\ prompts' = SavePrompt(prompts, newEntry)
                /\ isModalOpen' = FALSE
                /\ editingPrompt' = NullEntry
                /\ nextId' = (IF editingPrompt.id = 0 THEN nextId + 1 ELSE nextId)
                /\ currentPage' = PageAfter(currentPage, prompts', currentView,
                                            searchTerm, selectedTags)
                /\ last' = Last("save", newEntry.id, editingPrompt # NullEntry, newEntry)
                /\ UNCHANGED modalVars
    /\ UNCHANGED <<viewer, pdfExport, imageLoads, filterVars, selectedIds, importVars, now>>

(***************************************************************************)
(* The store, card and toolbar handlers (App).  Each ends with the render  *)
(* and the page effect that follow it.                                     *)
(***************************************************************************)
HandleSavePrompt(entry) ==
    /\ prompts' = SavePrompt(prompts, entry)
    /\ currentPage' = PageAfter(currentPage, prompts', currentView, searchTerm, selectedTags)
    /\ last' = Last("savePrompt", entry.id, entry.id \in Ids(prompts), entry)
    /\ UNCHANGED <<viewer, pdfExport, imageLoads, isModalOpen, editingPrompt, modalVars, filterVars, selectedIds,
                   importVars, now, nextId>>

\* mutation of HandleDeletePrompt: the answer to window.confirm is ignored
HandleDeletePromptUnasked(id, confirmed) ==
    /\ prompts' = DeletePrompt(prompts, id)
    /\ currentPage' = PageAfter(currentPage, prompts', currentView, searchTerm, selectedTags)
    /\ last' = Last("delete", id, confirmed, NullEntry)
    /\ UNCHANGED <<viewer, pdfExport, imageLoads, isModalOpen, editingPrompt, modalVars, filterVars, selectedIds,
                   importVars, now, nextId>>

\* confirmed is what window.confirm returns
HandleDeletePrompt(id, confirmed) ==
    /\ prompts' = (IF confirmed THEN DeletePrompt(prompts, id) ELSE prompts)
    /\ currentPage' = PageAfter(currentPage, prompts', currentView, searchTerm, selectedTags)
    /\ last' = Last("delete", id, confirmed, NullEntry)
    /\ UNCHANGED <<viewer, pdfExport, imageLoads, isModalOpen, editingPrompt, modalVars, filterVars, selectedIds,
                   importVars, now, nextId>>

HandleToggleFavorite(id) ==
    /\ prompts' = ToggleFavorite(prompts, id)
    /\ currentPage' = PageAfter(currentPage, prompts', currentView, searchTerm, selectedTags)
    /\ last' = Last("toggleFavorite", id, FALSE, NullEntry)
    /\ UNCHANGED <<viewer, pdfExport, imageLoads, isModalOpen, editingPrompt, modalVars, filterVars, selectedIds,
                   importVars, now, nextId>>

HandleSelectPrompt(id, isSelected) ==
    /\ selectedIds' = (IF isSelected THEN selectedIds \cup {id} ELSE selectedIds \ {id})
    /\ last' = Last("select", id, isSelected, NullEntry)
    /\ UNCHANGED <<viewer, pdfExport, imageLoads, prompts, isModalOpen, editingPrompt, modalVars, filterVars, currentPage,
                   importVars, now, nextId>>

HandleBulkDelete(confirmed) ==
    /\ LET deletes == Cardinality(selectedIds) > 0 /\ confirmed
       IN  /\ prompts' = (IF deletes THEN BulkDelete(prompts, selectedIds) ELSE prompts)
           /\ selectedIds' = (IF deletes THEN {} ELSE selectedIds)
           /\ last' = Last("bulkDelete", 0, deletes, NullEntry)
    /\ currentPage' = PageAfter(currentPage, prompts', currentView, searchTerm, selectedTags)
    /\ UNCHANGED <<viewer, pdfExport, imageLoads, isModalOpen, editingPrompt, modalVars, filterVars, importVars, now, nextId>>

HandleViewChange(view) ==
    /\ currentView' = view
    /\ currentPage' = PageAfter(1, prompts, view, searchTerm, selectedTags)
    /\ last' = Last("ui", 0, FALSE, NullEntry)
    /\ UNCHANGED <<viewer, pdfExport, imageLoads, prompts, isModalOpen, editingPrompt, modalVars, searchTerm, selectedTags,
                   selectedIds, importVars, now, nextId>>

\* Pagination's onPageChange={setCurrentPage}
SetCurrentPage(page) ==
    /\ currentPage' = PageAfter(page, prompts, currentView, searchTerm, selectedTags)
    /\ last' = Last("setPage", page, FALSE, NullEntry)
    /\ UNCHANGED <<viewer, pdfExport, imageLoads, prompts, isModalOpen, editingPrompt, modalVars, filterVars, selectedIds,
                   importVars, now, nextId>>

\* the search box's onChange
HandleSearchChange(term) ==
    /\ searchTerm' = term
    /\ currentPage' = PageAfter(1, prompts, currentView, term, selectedTags)
    /\ last' = Last("ui", 0, FALSE, NullEntry)
    /\ UNCHANGED <<viewer, pdfExport, imageLoads, prompts, isModalOpen, editingPrompt, modalVars, selectedTags,
                   currentView, selectedIds, importVars, now, nextId>>

HandleTagToggle(tag) ==
    /\ selectedTags' = (IF tag \in selectedTags THEN selectedTags \ {tag}
                        ELSE selectedTags \cup {tag})
    /\ currentPage' = PageAfter(1, prompts, currentView, searchTerm, selectedTags')
    /\ last' = Last("ui", 0, FALSE, NullEntry)
    /\ UNCHANGED <<viewer, pdfExport, imageLoads, prompts, isModalOpen, editingPrompt, modalVars, searchTerm, currentView,
                   selectedIds, importVars, now, nextId>>

\* onClearTags: the selection is emptied, the page is left as it is
ClearTags ==
    /\ selectedTags' = {}
    /\ currentPage' = PageAfter(currentPage, prompts, currentView, searchTerm, {})
    /\ last' = Last("ui", 0, FALSE, NullEntry)
    /\ UNCHANGED <<viewer, pdfExport, imageLoads, prompts, isModalOpen, editingPrompt, modalVars, searchTerm, currentView,
                   selectedIds, importVars, now, nextId>>

\* time passes between two events
Tick ==
    /\ now < MaxClock
    /\ now' = now + 1
    /\ last' = Last("ui", 0, FALSE, NullEntry)
    /\ UNCHANGED <<viewer, pdfExport, imageLoads, prompts, isModalOpen, editingPrompt, modalVars, filterVars, currentPage,
                   selectedIds, importVars, nextId>>

(***************************************************************************)
(* What the page renders: a handler runs only from a control on screen.    *)
(* The modal's overlay covers the page while it is open.                   *)
(***************************************************************************)
PageUsable == ~isModalOpen
CardsShown == PageUsable /\ currentView # "report"
CardShown(id) == CardsShown /\ id \in Ids(Shown)
AddEntryShown == CardsShown
SelectionToolbarShown == CardsShown /\ Cardinality(selectedIds) > 0
\* Pagination is rendered under the cards, when there are any
PaginationShown == CardsShown /\ Len(Filtered) > 0
TagButtonShown(tag) == PageUsable /\ tag \in allTags(prompts)
ReportShown == PageUsable /\ currentView = "report"

(***************************************************************************)
(* Spreadsheet import (storageManager.ts).  A worksheet row holds the      *)
(* cells importFromExcel reads: text cells as character sequences (empty   *)
(* for a blank cell), the ID cell as an id (0 for blank), the Created At   *)
(* cell as the time it parses to (0 for blank, -1 for text that is no      *)
(* date, on which toISOString throws).                                     *)
(***************************************************************************)
\* str.split(sep) for a one-character separator
RECURSIVE Split(_, _)
Split(s, sep) ==
    IF \E i \in 1..Len(s) : s[i] = sep
    THEN LET k == CHOOSE i \in 1..Len(s) :
                    s[i] = sep /\ \A j \in 1..(i - 1) : s[j] # sep
         IN  <<SubSeq(s, 1, k - 1)>> \o Split(SubSeq(s, k + 1, Len(s)), sep)
    ELSE <<s>>

MapSeq(s, Op(_)) == [i \in 1..Len(s) |-> Op(s[i])]

\* one "key: value" piece; the ids crypto.randomUUID gives the rows are not modelled
ParseParameter(piece) ==
    LET parts == MapSeq(Split(piece, ":"), Trim)
    IN  [id |-> 0,
         key |-> parts[1],
         value |-> IF Len(parts) >= 2 THEN parts[2] ELSE <<>>]

ParseParameters(parametersStr) ==
    IF parametersStr = <<>> THEN <<>>
    ELSE SelectSeq(MapSeq(Split(parametersStr, ";"), ParseParameter),
                   LAMBDA p : p.key # <<>> /\ p.value # <<>>)

ParseTags(tagsStr) ==
    IF tagsStr = <<>> THEN <<>>
    ELSE SelectSeq(MapSeq(Split(tagsStr, ","), Trim), LAMBDA t : t # <<>>)

\* the object importFromExcel pushes for one row
ParseRow(row, freshId, t) ==
    [id |-> IF row.id # 0 THEN row.id ELSE freshId,
     prompt |-> row.prompt,
     model |-> IF row.model # <<>> THEN row.model ELSE <<Undefined>>,
     tags |-> ParseTags(row.tags),
     parameters |-> ParseParameters(row.parameters),
     createdAt |-> IF row.createdAt # 0 THEN row.createdAt ELSE t,
     isFavorite |-> IF row.favorite = "Yes" THEN "true" ELSE "false",
     beforeImage |-> Undefined,
     afterImage |-> Undefined]

\* the rows before row i that get a fresh id
BlankIdsBefore(rows, i) == Cardinality({j \in 1..(i - 1) : rows[j].id = 0})

\* importFromExcel's result for a workbook it can read
ImportFromExcel(rows, firstFresh, t) ==
    [i \in 1..Len(rows) |-> ParseRow(rows[i], firstFresh + BlankIdsBefore(rows, i), t)]

\* importFromExcel rejects: no workbook, no Prompts worksheet, or a date that throws
ImportRejects(file) ==
    \/ ~file.ok
    \/ \E i \in 1..Len(file.rows) : file.rows[i].createdAt < 0

(***************************************************************************)
(* The spreadsheet export (storageManager.ts): the row exportToExcel-       *)
(* WithImages writes for an entry.  createdAt is in milliseconds;          *)
(* toLocaleString prints it to the second, in a form that new Date reads   *)
(* back under an en-US locale and rejects under others (de-DE).            *)
(***************************************************************************)
\* arr.join(sep)
RECURSIVE Join(_, _)
Join(arr, sep) ==
    IF arr = <<>> THEN <<>>
    ELSE IF Len(arr) = 1 THEN arr[1]
    ELSE arr[1] \o sep \o Join(Tail(arr), sep)

\* `${p.key}: ${p.value}`
ExportParameter(p) == p.key \o <<":", " ">> \o p.value

\* what new Date(new Date(createdAt).toLocaleString()) reads: -1 for Invalid Date
ExportCreatedAt(createdAt, locale) ==
    IF locale = "en-US" THEN createdAt - (createdAt % 1000) ELSE -1

\* the object handed to worksheet.addRow
ExportRow(p, locale) ==
    [id |-> p.id,
     prompt |-> p.prompt,
     model |-> IF ModelPresent(p.model) THEN p.model ELSE <<>>,
     tags |-> Join(p.tags, <<",", " ">>),
     parameters |-> Join(MapSeq(p.parameters, ExportParameter), <<";", " ">>),
     createdAt |-> ExportCreatedAt(p.createdAt, locale),
     favorite |-> IF Truthy(p.isFavorite) THEN "Yes" ELSE "No"]

\* the workbook of the archive exportToExcelWithImages downloads
ExportToExcel(ps, locale) ==
    [ok |-> TRUE, rows |-> [i \in 1..Len(ps) |-> ExportRow(ps[i], locale)]]

(***************************************************************************)
(* Image reattachment (storageManager.ts).  The image map is the sequence  *)
(* of its [name, base64] pairs in insertion order.                         *)
(***************************************************************************)
Digits == <<"0", "1", "2", "3", "4", "5", "6", "7", "8", "9">>
IsDigit(c) == \E i \in 1..10 : Digits[i] = c
DigitValue(c) == (CHOOSE i \in 1..10 : Digits[i] = c) - 1

\* the length of the \d+ prefix
RECURSIVE DigitPrefix(_)
DigitPrefix(s) ==
    IF s # <<>> /\ IsDigit(Head(s)) THEN 1 + DigitPrefix(Tail(s)) ELSE 0

RECURSIVE ParseInt(_)
ParseInt(ds) ==
    IF ds = <<>> THEN 0
    ELSE 10 * ParseInt(SubSeq(ds, 1, Len(ds) - 1)) + DigitValue(ds[Len(ds)])

StartsWith(s, prefix) ==
    Len(s) >= Len(prefix) /\ SubSeq(s, 1, Len(prefix)) = prefix

\* filename.match(/^(\d+)_(Before|After)\./i): the number and the lower-cased type
FileNameMatch(filename) ==
    LET d == DigitPrefix(filename)
        rest == ToLowerCase(SubSeq(filename, d + 1, Len(filename)))
        type == IF StartsWith(rest, <<"_", "b", "e", "f", "o", "r", "e", ".">>) THEN "before"
                ELSE IF StartsWith(rest, <<"_", "a", "f", "t", "e", "r", ".">>) THEN "after"
                ELSE "none"
    IN  [matched |-> d > 0 /\ type # "none",
         fileNumber |-> ParseInt(SubSeq(filename, 1, d)),
         type |-> type]

\* imageMap.set(name, base64): a known key keeps its place
MapSet(m, name, base64) ==
    IF \E i \in 1..Len(m) : m[i].name = name
    THEN [i \in 1..Len(m) |-> IF m[i].name = name THEN [name |-> name, base64 |-> base64]
                              ELSE m[i]]
    ELSE Append(m, [name |-> name, base64 |-> base64])

\* loadImagesFromFolder, when every read succeeds
RECURSIVE LoadImagesInto(_, _)
LoadImagesInto(m, files) ==
    IF files = <<>> THEN m
    ELSE LoadImagesInto(IF Head(files).isImage
                        THEN MapSet(m, Head(files).name, Head(files).base64)
                        ELSE m,
                        Tail(files))

LoadImagesFromFolder(files) == LoadImagesInto(<<>>, files)

\* the value the forEach leaves in beforeImage / afterImage: the last match wins
RECURSIVE MatchedImage(_, _, _, _)
MatchedImage(current, imageMap, promptNumber, type) ==
    IF imageMap = <<>> THEN current
    ELSE LET m == FileNameMatch(Head(imageMap).name)
         IN  MatchedImage(IF m.matched /\ m.fileNumber = promptNumber /\ m.type = type
                          THEN Head(imageMap).base64 ELSE current,
                          Tail(imageMap), promptNumber, type)

\* mutation of MatchImagesToPrompts: the file number is taken as a 0-based index
MatchImagesToPromptsZeroBased(ps, imageMap) ==
    [i \in 1..Len(ps) |->
        [ps[i] EXCEPT !.beforeImage = MatchedImage(ps[i].beforeImage, imageMap, i - 1, "before"),
                      !.afterImage = MatchedImage(ps[i].afterImage, imageMap, i - 1, "after")]]

MatchImagesToPrompts(ps, imageMap) ==
    [i \in 1..Len(ps) |->
        [ps[i] EXCEPT !.beforeImage = MatchedImage(ps[i].beforeImage, imageMap, i, "before"),
                      !.afterImage = MatchedImage(ps[i].afterImage, imageMap, i, "after")]]

(***************************************************************************)
(* handleImportFromExcel (App): the file picker, the parse, the            *)
(* confirmation, the folder picker and the image load.  One import is in   *)
(* flight at a time.                                                       *)
(***************************************************************************)
BlankIds(rows) == Cardinality({j \in 1..Len(rows) : rows[j].id = 0})

\* the Import button, and a file chosen: importFromExcel is awaited
HandleImportFromExcel ==
    /\ importPc = "idle"
    /\ importPc' = "parsing"
    /\ last' = Last("ui", 0, FALSE, NullEntry)
    /\ UNCHANGED <<viewer, pdfExport, imageLoads, prompts, isModalOpen, editingPrompt, modalVars, filterVars, currentPage,
                   selectedIds, importedPrompts, now, nextId>>

\* importFromExcel settles; window.confirm answers loadImages
ImportParsed(file, loadImages) ==
    /\ importPc = "parsing"
    /\ IF ImportRejects(file)
       THEN /\ importPc' = "idle"
            /\ last' = Last("importFailed", 0, FALSE, NullEntry)
            /\ UNCHANGED <<prompts, importedPrompts, currentPage, nextId>>
       ELSE /\ nextId + BlankIds(file.rows) <= MaxIds + 1
            /\ LET imported == ImportFromExcel(file.rows, nextId, now)
               IN  IF loadImages
                   THEN /\ importPc' = "folder"
                        /\ importedPrompts' = imported
                        /\ last' = Last("importParsed", 0, TRUE, NullEntry)
                        /\ UNCHANGED <<prompts, currentPage>>
                   ELSE /\ importPc' = "idle"
                        /\ prompts' = imported
                        /\ currentPage' = PageAfter(currentPage, prompts', currentView,
                                                    searchTerm, selectedTags)
                        /\ last' = Last("import", 0, FALSE, NullEntry)
                        /\ UNCHANGED importedPrompts
            /\ nextId' = nextId + BlankIds(file.rows)
    /\ UNCHANGED <<viewer, pdfExport, imageLoads, isModalOpen, editingPrompt, modalVars, filterVars, selectedIds, now>>

\* the folder picker's onchange with a file list; loadImagesFromFolder settles
FolderChosen(files, readOk) ==
    /\ importPc = "folder"
    /\ prompts' = (IF readOk
                   THEN MatchImagesToPrompts(importedPrompts, LoadImagesFromFolder(files))
                   ELSE importedPrompts)
    /\ currentPage' = PageAfter(currentPage, prompts', currentView, searchTerm, selectedTags)
    /\ importPc' = "idle"
    /\ importedPrompts' = <<>>
    /\ last' = Last("import", 0, readOk, NullEntry)
    /\ UNCHANGED <<viewer, pdfExport, imageLoads, isModalOpen, editingPrompt, modalVars, filterVars, selectedIds, now, nextId>>

\* the folder picker's onchange without a file list (if (!files) return), or the
\* picker dismissed, after which onchange never runs
FolderNotChosen ==
    /\ importPc = "folder"
    /\ importPc' = "idle"
    /\ importedPrompts' = <<>>
    /\ last' = Last("importDropped", 0, FALSE, NullEntry)
    /\ UNCHANGED <<viewer, pdfExport, imageLoads, prompts, isModalOpen, editingPrompt, modalVars, filterVars, currentPage,
                   selectedIds, now, nextId>>

(***************************************************************************)
(* The application: what the user types, picks and drops is drawn from     *)
(* small sets.                                                             *)
(***************************************************************************)
ImgX == "data:image/png;base64,X"
ImgY == "data:image/jpeg;base64,Y"

PromptInputs == {<<"c">>, <<"d">>}
ImageInputs == {ImgX}

Row(id, createdAt, favorite) ==
    [id |-> id, prompt |-> <<"c">>, model |-> <<>>, tags |-> <<>>, parameters |-> <<>>,
     createdAt |-> createdAt, favorite |-> favorite]

\* ids that an earlier session or another library wrote into a spreadsheet
FileIds == {101}

\* the rows a worksheet may hold: the ID cell blank or filled, the Created At
\* cell blank or filled
RowInputs ==
    {Row(id, 0, IF id = 0 THEN "No" ELSE "Yes") : id \in {0} \cup FileIds}
        \cup {Row(id, MaxClock, IF id = 0 THEN "Yes" ELSE "No") : id \in {0} \cup FileIds}

Worksheets ==
    UNION {[1..n -> RowInputs] : n \in 0..MaxRows}

FileInputs ==
    {[ok |-> FALSE, rows |-> <<>>]} \cup {[ok |-> TRUE, rows |-> rows] : rows \in Worksheets}

FolderInputs ==
    {<<>>,
     <<[name |-> <<"1", "_", "B", "e", "f", "o", "r", "e", ".", "p", "n", "g">>,
        isImage |-> TRUE, base64 |-> ImgX]>>}

InitWith(ps, sel) ==
    /\ prompts = ps
    /\ isModalOpen = FALSE
    /\ editingPrompt = NullEntry
    /\ imageLoads = {}
    /\ pdfExport = [pc |-> "idle", entry |-> NullEntry]
    /\ viewer = ViewerMounted(Undefined)
    /\ prompt = <<>>
    /\ beforeImage = Undefined
    /\ afterImage = Undefined
    /\ model = <<>>
    /\ parameters = <<>>
    /\ tags = <<>>
    /\ tagInput = <<>>
    /\ errors = {}
    /\ searchTerm = <<>>
    /\ selectedTags = {}
    /\ currentPage = 1
    /\ selectedIds = sel
    /\ currentView = "all"
    /\ importPc = "idle"
    /\ importedPrompts = <<>>
    /\ now = 1
    /\ nextId = 1
    /\ last = Last("init", 0, FALSE, NullEntry)

\* the application started on an empty library
Init == InitWith(<<>>, {})

(***************************************************************************)
(* Spec: the editor and the card handlers on a store that the editor       *)
(* fills.                                                                  *)
(***************************************************************************)
Next ==
    \/ Tick
    \/ AddEntryShown /\ Len(prompts) < MaxPrompts /\ nextId <= MaxIds
          /\ HandleOpenModal(NullEntry)
    \/ \E entry \in ShownEntries : CardShown(entry.id) /\ HandleOpenModal(entry)
    \/ HandleCloseModal
    \/ \E v \in PromptInputs : SetPrompt(v)
    \/ \E img \in ImageInputs : OnImageChange("before", img)
    \/ HandleSave
    \/ \E id \in Ids(prompts), confirmed \in BOOLEAN :
          CardShown(id) /\ HandleDeletePrompt(id, confirmed)
    \/ \E id \in Ids(prompts) : CardShown(id) /\ HandleToggleFavorite(id)
    \/ \E view \in {"all", "favorites"} : PageUsable /\ HandleViewChange(view)

Spec == Init /\ [][Next]_vars

(***************************************************************************)
(* ImportSpec: the spreadsheet import from the report view, and the        *)
(* editor and card handlers on what it brings in.  No user event is        *)
(* handled while an import's pickers and reads are pending.                *)
(***************************************************************************)
UserIdle == importPc = "idle"

ImportNext ==
    \/ \E view \in {"all", "report"} : UserIdle /\ PageUsable /\ HandleViewChange(view)
    \/ UserIdle /\ ReportShown /\ HandleImportFromExcel
    \/ \E file \in FileInputs, loadImages \in BOOLEAN : ImportParsed(file, loadImages)
    \/ \E files \in FolderInputs, readOk \in BOOLEAN : FolderChosen(files, readOk)
    \/ FolderNotChosen
    \/ UserIdle /\ AddEntryShown /\ Len(prompts) < MaxPrompts /\ nextId <= MaxIds
          /\ HandleOpenModal(NullEntry)
    \/ \E entry \in ShownEntries : UserIdle /\ CardShown(entry.id) /\ HandleOpenModal(entry)
    \/ UserIdle /\ HandleCloseModal
    \/ UserIdle /\ SetPrompt(<<"d">>)
    \/ UserIdle /\ OnImageChange("before", ImgX)
    \/ UserIdle /\ HandleSave
    \/ \E id \in Ids(prompts) : UserIdle /\ CardShown(id) /\ HandleDeletePrompt(id, TRUE)

ImportSpec == Init /\ [][ImportNext]_vars

(***************************************************************************)
(* StoreSpec: the store operations as functions of the store and their     *)
(* argument, on every store of up to MaxStore entries of a small pool.     *)
(* Two entries of a store may bear the same id (see C1).                   *)
(***************************************************************************)
MaxStore == 3

StoreEntry(id, text) ==
    [id |-> id, beforeImage |-> ImgX, afterImage |-> Undefined, prompt |-> text,
     model |-> <<>>, parameters |-> <<>>, tags |-> <<>>, createdAt |-> id,
     isFavorite |-> Undefined]

StoreIds == {1, 2, 3}
StoreEntries == {StoreEntry(id, text) : id \in StoreIds, text \in PromptInputs}
StoreInputs == UNION {[1..n -> StoreEntries] : n \in 0..MaxStore}

StoreInit == \E ps \in StoreInputs, sel \in SUBSET StoreIds : InitWith(ps, sel)

StoreNext ==
    \/ \E entry \in StoreEntries :
          /\ entry.id \in Ids(prompts) \/ Len(prompts) < MaxStore
          /\ HandleSavePrompt(entry)
    \/ \E id \in StoreIds, confirmed \in BOOLEAN : HandleDeletePrompt(id, confirmed)
    \/ \E confirmed \in BOOLEAN : HandleBulkDelete(confirmed)

StoreSpec == StoreInit /\ [][StoreNext]_vars

(***************************************************************************)
(* EditorSpec: the editor with blank and whitespace-only prompts and both  *)
(* image slots, each of which can be set and cleared.                      *)
(***************************************************************************)
EditorPromptInputs == {<<>>, <<" ">>, <<"c">>}

\* the image of a slot of the editor
SlotImage(slot) == IF slot = "before" THEN beforeImage ELSE afterImage

\* ImageInput renders its remove button over the image it shows
RemoveImageShown(slot) == isModalOpen /\ HasImage(SlotImage(slot))

EditorNext ==
    \/ AddEntryShown /\ Len(prompts) < MaxPrompts /\ nextId <= MaxIds
          /\ HandleOpenModal(NullEntry)
    \/ \E entry \in ShownEntries : CardShown(entry.id) /\ HandleOpenModal(entry)
    \/ HandleCloseModal
    \/ \E v \in EditorPromptInputs : SetPrompt(v)
    \/ \E slot \in {"before", "after"} : OnImageChange(slot, ImgX)
    \/ \E slot \in {"before", "after"} :
          RemoveImageShown(slot) /\ OnImageChange(slot, Undefined)
    \/ HandleSave

EditorSpec == Init /\ [][EditorNext]_vars

(***************************************************************************)
(* TagSpec: the editor's tag list, opened on a new entry or on an entry    *)
(* with one tag, with tag inputs that differ only by spaces.               *)
(***************************************************************************)
TagInputs == {<<>>, <<" ">>, <<"a">>, <<" ", "a", " ">>, <<"b">>}

TagStore ==
    <<[id |-> 2, beforeImage |-> ImgX, afterImage |-> Undefined, prompt |-> <<"c">>,
       model |-> <<>>, parameters |-> <<>>, tags |-> <<<<"a">>>>, createdAt |-> 1,
       isFavorite |-> Undefined]>>

TagInit == InitWith(TagStore, {})

TagNext ==
    \/ AddEntryShown /\ Len(prompts) < MaxPrompts /\ HandleOpenModal(NullEntry)
    \/ \E entry \in ShownEntries : CardShown(entry.id) /\ HandleOpenModal(entry)
    \/ HandleCloseModal
    \/ SetPrompt(<<"c">>)
    \/ OnImageChange("before", ImgX)
    \/ \E v \in TagInputs : HandleTagInputChange(v)
    \/ HandleTagInputKeyDown
    \/ \E i \in 1..Len(tags) : RemoveTag(tags[i])
    \/ HandleSave

TagSpec == TagInit /\ [][TagNext]_vars

(***************************************************************************)
(* ParameterSpec: the editor's parameter rows on a new entry, with keys    *)
(* and values that are empty, blank or filled.                             *)
(***************************************************************************)
MaxParameters == 2   \* parameter rows of the editor

ParameterTexts == {<<>>, <<" ">>, <<"k">>}

\* generateId() gives an id no row has
FreshParameterId == CHOOSE n \in 1..(Len(parameters) + 1) :
                        \A i \in 1..Len(parameters) : parameters[i].id # n

ParameterNext ==
    \/ AddEntryShown /\ Len(prompts) < 1 /\ HandleOpenModal(NullEntry)
    \/ HandleCloseModal
    \/ SetPrompt(<<"c">>)
    \/ OnImageChange("before", ImgX)
    \/ Len(parameters) < MaxParameters /\ AddParameter(FreshParameterId)
    \/ \E i \in 1..Len(parameters), field \in {"key", "value"}, v \in ParameterTexts :
          UpdateParameter(parameters[i].id, field, v)
    \/ \E i \in 1..Len(parameters) : RemoveParameter(parameters[i].id)
    \/ HandleSave

ParameterSpec == Init /\ [][ParameterNext]_vars

(***************************************************************************)
(* LoadSpec: the editor with ImageInput's asynchronous loads.  A file read *)
(* or a URL fetch is started in an open editor and settles in a later step *)
(* of its own, whatever the editor did in between.                         *)
(***************************************************************************)
MaxLoads == 1        \* loads in flight at once
MaxLoadStore == 1    \* entries the editor may add to the store

ImgHtml == "data:text/html;base64,H"

\* a Blob or File: its MIME type; the bytes follow the type
Blob(type) == [type |-> type]

\* fileToBase64: reader.readAsDataURL gives "data:" + type + ";base64," + bytes
FileToBase64(blob) ==
    IF blob.type = "image/png" THEN ImgX
    ELSE IF blob.type = "image/jpeg" THEN ImgY
    ELSE ImgHtml

\* what a FileReader does with the file picked or dropped
FileReads ==
    {[settled |-> "read", blob |-> Blob("image/png")], [settled |-> "readError"]}

\* what fetch(url) and response.blob() give
Fetches ==
    {[settled |-> "networkError"],
     [settled |-> "response", ok |-> TRUE, blob |-> Blob("image/jpeg")],
     [settled |-> "response", ok |-> FALSE, blob |-> Blob("text/html")],
     [settled |-> "response", ok |-> TRUE, blob |-> Blob("text/html")]}

Outcomes(load) == IF load.kind = "file" THEN FileReads ELSE Fetches

\* handleFileChange and handleDrop up to their await (kind "file"),
\* loadImageFromUrl up to its first await (kind "url")
StartImageLoad(slot, kind) ==
    /\ isModalOpen
    /\ imageLoads' = imageLoads \cup {[slot |-> slot, kind |-> kind, earlierSession |-> FALSE]}
    /\ last' = Last("ui", 0, FALSE, NullEntry)
    /\ UNCHANGED <<viewer, pdfExport, prompts, isModalOpen, editingPrompt, modalVars, filterVars, currentPage,
                   selectedIds, importVars, now, nextId>>

\* the rest of handleFileChange, handleDrop and loadImageFromUrl after the
\* await: onImageChange is setBeforeImage or setAfterImage of the mounted
\* PromptModal; a rejected file read is handled by nobody, a rejected fetch
\* by loadImageFromUrl's catch and its alert
ImageLoadSettles(load, outcome) ==
    /\ load \in imageLoads
    /\ imageLoads' = imageLoads \ {load}
    /\ IF outcome.settled \in {"read", "response"}
       THEN /\ beforeImage' = (IF load.slot = "before" THEN FileToBase64(outcome.blob)
                               ELSE beforeImage)
            /\ afterImage' = (IF load.slot = "after" THEN FileToBase64(outcome.blob)
                              ELSE afterImage)
            /\ last' = Last("imageLoaded", 0, load.earlierSession, NullEntry)
       ELSE /\ UNCHANGED <<beforeImage, afterImage>>
            /\ last' = Last(IF load.kind = "url" THEN "imageLoadAlert" ELSE "imageLoadUnhandled",
                            0, load.earlierSession, NullEntry)
    /\ UNCHANGED <<viewer, pdfExport, prompts, isModalOpen, editingPrompt, prompt, model, parameters, tags,
                   tagInput, errors, filterVars, currentPage, selectedIds, importVars,
                   now, nextId>>

LoadNext ==
    \/ AddEntryShown /\ Len(prompts) < MaxLoadStore /\ nextId <= MaxIds
          /\ HandleOpenModal(NullEntry)
    \/ \E entry \in ShownEntries : CardShown(entry.id) /\ HandleOpenModal(entry)
    \/ HandleCloseModal
    \/ SetPrompt(<<"c">>)
    \/ \E slot \in {"before", "after"} :
          RemoveImageShown(slot) /\ OnImageChange(slot, Undefined)
    \/ \E slot \in {"before", "after"}, kind \in {"file", "url"} :
          Cardinality(imageLoads) < MaxLoads /\ StartImageLoad(slot, kind)
    \/ \E load \in imageLoads : \E outcome \in Outcomes(load) :
          ImageLoadSettles(load, outcome)
    \/ HandleSave

LoadSpec == Init /\ [][LoadNext]_vars

(***************************************************************************)
(* PdfSpec: the card's PDF button on stores whose entries carry images the *)
(* browser can decode and images it cannot.  generatePDF runs up to its    *)
(* await of getImageDimensions and goes on when that promise resolves.     *)
(***************************************************************************)
MaxPdfStore == 2     \* entries of the store

ImgCorrupt == "data:image/png;base64,?"

\* new Image() with src = imageData fires its load event for data the browser
\* can decode, and its error event for any other
Decodable(imageData) == imageData \in {ImgX, ImgY}

\* getImageDimensions: the promise resolves in img.onload; there is no
\* img.onerror and no reject
DimensionsResolve(imageData) == Decodable(imageData)

\* the image generatePDF waits for at pc
AwaitedImage(export) ==
    IF export.pc = "before" THEN export.entry.beforeImage
    ELSE IF export.pc = "after" THEN export.entry.afterImage
    ELSE Undefined

\* generatePDF from the start ("idle"), from after the block of the before
\* image or from after the block of the after image, up to the next await or
\* to doc.save, which saves or throws
PdfRunFrom(entry, pc, saves) ==
    IF pc = "idle" /\ HasImage(entry.beforeImage) THEN "before"
    ELSE IF pc \in {"idle", "before"} /\ HasImage(entry.afterImage) THEN "after"
    ELSE IF saves THEN "saved" ELSE "failed"

\* the card's PDF button: generatePDF(entry), not awaited
GeneratePDF(entry, saves) ==
    /\ pdfExport.pc \in {"idle", "saved", "failed"}
    /\ pdfExport' = [pc |-> PdfRunFrom(entry, "idle", saves), entry |-> entry]
    /\ last' = Last("generatePDF", entry.id, FALSE, entry)
    /\ UNCHANGED <<prompts, isModalOpen, editingPrompt, modalVars, filterVars, currentPage,
                   selectedIds, importVars, now, nextId, imageLoads, viewer>>

\* img.onload resolves the promise generatePDF awaits; generatePDF goes on,
\* its try/catch swallowing what doc.addImage may throw
DimensionsResolved(saves) ==
    /\ pdfExport.pc \in {"before", "after"}
    /\ DimensionsResolve(AwaitedImage(pdfExport))
    /\ pdfExport' = [pdfExport EXCEPT !.pc = PdfRunFrom(pdfExport.entry, pdfExport.pc, saves)]
    /\ last' = Last("pdfResumed", pdfExport.entry.id, FALSE, pdfExport.entry)
    /\ UNCHANGED <<prompts, isModalOpen, editingPrompt, modalVars, filterVars, currentPage,
                   selectedIds, importVars, now, nextId, imageLoads, viewer>>

PdfImages == {Undefined, ImgX, ImgCorrupt}

PdfEntry(id, before, after) ==
    [id |-> id, beforeImage |-> before, afterImage |-> after, prompt |-> <<"c">>,
     model |-> <<>>, parameters |-> <<>>, tags |-> <<>>, createdAt |-> id,
     isFavorite |-> Undefined]

PdfStores ==
    {<<PdfEntry(1, b, a)>> : b \in PdfImages, a \in PdfImages}
    \cup {<<PdfEntry(2, c, Undefined), PdfEntry(1, b, a)>> :
            c \in {ImgX, ImgCorrupt}, b \in PdfImages, a \in PdfImages}

PdfInit == \E ps \in PdfStores : InitWith(ps, {})

PdfNext ==
    \/ \E entry \in ShownEntries : \E saves \in BOOLEAN :
          CardShown(entry.id) /\ GeneratePDF(entry, saves)
    \/ \E saves \in BOOLEAN : DimensionsResolved(saves)

\* the browser delivers the load event of an image it has decoded
PdfSpec ==
    PdfInit /\ [][PdfNext]_vars /\ WF_vars(\E saves \in BOOLEAN : DimensionsResolved(saves))

(***************************************************************************)
(* FilterSpec: search, tag selection and view on every store of up to      *)
(* MaxFilterStore distinct entries of a pool with mixed-case prompts,      *)
(* models and tags, favorites and equal creation times.                    *)
(***************************************************************************)
MaxFilterStore == 3

FilterEntry(id, text, m, ts, createdAt, favorite) ==
    [id |-> id, beforeImage |-> ImgX, afterImage |-> Undefined, prompt |-> text,
     model |-> m, parameters |-> <<>>, tags |-> ts, createdAt |-> createdAt,
     isFavorite |-> favorite]

FilterEntries ==
    {FilterEntry(1, <<"A", "b">>, <<Undefined>>, <<<<"x">>>>, 1, "true"),
     FilterEntry(2, <<"b">>, <<"A">>, <<>>, 2, "false"),
     FilterEntry(3, <<"c">>, <<>>, <<<<"a", "Y">>, <<"x">>>>, 1, Undefined),
     FilterEntry(4, <<"c">>, <<Undefined>>, <<<<"y">>>>, 2, "true")}

FilterStores ==
    {ps \in UNION {[1..n -> FilterEntries] : n \in 0..MaxFilterStore} :
        \A i, j \in 1..Len(ps) : i # j => ps[i] # ps[j]}

SearchInputs == {<<>>, <<"a">>, <<"B">>, <<"a", "b">>, <<"y">>}

FilterInit == \E ps \in FilterStores : InitWith(ps, {})

FilterNext ==
    \/ \E term \in SearchInputs : CardsShown /\ HandleSearchChange(term)
    \/ \E tag \in allTags(prompts) : TagButtonShown(tag) /\ HandleTagToggle(tag)
    \/ PageUsable /\ Cardinality(selectedTags) > 0 /\ ClearTags
    \/ \E view \in {"all", "favorites", "report"} : PageUsable /\ HandleViewChange(view)

FilterSpec == FilterInit /\ [][FilterNext]_vars

(***************************************************************************)
(* ExportAllSpec: FilterSpec with the report view's Export All to PDF.     *)
(***************************************************************************)
\* handleExportAll: generatePDF or generateBulkPDF of filteredPrompts, not awaited
HandleExportAll(saves) ==
    /\ LET exported == Filtered
       IN  /\ pdfExport' =
                 (IF Len(exported) = 0 THEN pdfExport
                  ELSE IF Len(exported) = 1
                       THEN [pc |-> PdfRunFrom(exported[1], "idle", saves), entry |-> exported[1]]
                       ELSE [pc |-> "bulk", entry |-> NullEntry, entries |-> exported])
           /\ last' = Last("exportAll", 0, Len(exported) > 0, NullEntry)
    /\ UNCHANGED <<prompts, isModalOpen, editingPrompt, modalVars, filterVars, currentPage,
                   selectedIds, importVars, now, nextId, imageLoads, viewer>>

ExportAllNext ==
    \/ \E term \in SearchInputs : CardsShown /\ HandleSearchChange(term)
    \/ \E tag \in allTags(prompts) : TagButtonShown(tag) /\ HandleTagToggle(tag)
    \/ PageUsable /\ Cardinality(selectedTags) > 0 /\ ClearTags
    \/ \E view \in {"all", "favorites", "report"} : PageUsable /\ HandleViewChange(view)
    \/ \E saves \in BOOLEAN : ReportShown /\ HandleExportAll(saves)

ExportAllSpec == FilterInit /\ [][ExportAllNext]_vars

(***************************************************************************)
(* TagFilterSpec: FilterSpec with the cards' delete button.                *)
(***************************************************************************)
TagFilterNext ==
    \/ \E term \in SearchInputs : CardsShown /\ HandleSearchChange(term)
    \/ \E tag \in allTags(prompts) : TagButtonShown(tag) /\ HandleTagToggle(tag)
    \/ PageUsable /\ Cardinality(selectedTags) > 0 /\ ClearTags
    \/ \E view \in {"all", "favorites", "report"} : PageUsable /\ HandleViewChange(view)
    \/ \E id \in Ids(prompts), confirmed \in BOOLEAN :
          CardShown(id) /\ HandleDeletePrompt(id, confirmed)

TagFilterSpec == FilterInit /\ [][TagFilterNext]_vars

(***************************************************************************)
(* PageSpec: stores of up to MaxPageStore entries, of which the first few  *)
(* are selected, so that the cards fill more than one page.  Pagination    *)
(* may hand any page number from 0 to one past the last to onPageChange.   *)
(***************************************************************************)
MaxPageStore == 13

PageEntry(id) ==
    [id |-> id, beforeImage |-> ImgX, afterImage |-> Undefined, prompt |-> <<"c">>,
     model |-> <<>>, parameters |-> <<>>, tags |-> <<>>, createdAt |-> id,
     isFavorite |-> IF id % 2 = 1 THEN "true" ELSE Undefined]

PageStore(n) == [i \in 1..n |-> PageEntry(i)]

PageInit == \E n \in 0..MaxPageStore : \E k \in 0..n : InitWith(PageStore(n), 1..k)

PageNext ==
    \/ \E page \in 0..(totalPages(Filtered) + 1) : PaginationShown /\ SetCurrentPage(page)
    \/ \E confirmed \in BOOLEAN : SelectionToolbarShown /\ HandleBulkDelete(confirmed)
    \/ Len(Shown) > 0 /\ CardShown(Shown[1].id) /\ HandleDeletePrompt(Shown[1].id, TRUE)
    \/ \E view \in {"all", "favorites"} : PageUsable /\ HandleViewChange(view)
    \/ \E term \in {<<>>, <<"z">>} : CardsShown /\ HandleSearchChange(term)

PageSpec == PageInit /\ [][PageNext]_vars

(***************************************************************************)
(* ToggleSpec: the favorite toggle on every store of up to MaxToggleStore  *)
(* entries whose star is unset, on or off, for ids in and out of the       *)
(* store.                                                                  *)
(***************************************************************************)
MaxToggleStore == 3

ToggleEntry(id, favorite) ==
    [id |-> id, beforeImage |-> ImgX, afterImage |-> Undefined, prompt |-> <<"c">>,
     model |-> <<>>, parameters |-> <<>>, tags |-> <<>>, createdAt |-> id,
     isFavorite |-> favorite]

ToggleIds == {1, 2, 3}
ToggleEntries ==
    {ToggleEntry(id, favorite) : id \in {1, 2}, favorite \in {Undefined, "true", "false"}}
ToggleStores == UNION {[1..n -> ToggleEntries] : n \in 0..MaxToggleStore}

ToggleInit == \E ps \in ToggleStores : InitWith(ps, {})

ToggleNext == \E id \in ToggleIds : HandleToggleFavorite(id)

ToggleSpec == ToggleInit /\ [][ToggleNext]_vars

(***************************************************************************)
(* RoundTripSpec: a library the editor wrote is exported from the report   *)
(* view and the workbook of that export is imported again.                 *)
(***************************************************************************)
MaxRoundTripStore == 2

Parameter(id, key, value) == [id |-> id, key |-> key, value |-> value]

RoundTripEntry(id, m, ts, params, createdAt, favorite) ==
    [id |-> id, beforeImage |-> ImgX, afterImage |-> Undefined, prompt |-> <<"c", " ", "d">>,
     model |-> m, parameters |-> params, tags |-> ts, createdAt |-> createdAt,
     isFavorite |-> favorite]

\* entries as handleSave builds them (the star set by a later toggle)
RoundTripEntries ==
    {RoundTripEntry(1, <<>>, <<>>, <<>>, 1000, Undefined),
     RoundTripEntry(2, <<"m">>, <<<<"a">>, <<"b">>>>,
                    <<Parameter(1, <<"k">>, <<"v">>), Parameter(2, <<"l">>, <<"w">>)>>,
                    1500, "true"),
     RoundTripEntry(3, <<"m">>, <<<<"a">>>>, <<Parameter(1, <<"k">>, <<>>)>>, 2000, "false"),
     RoundTripEntry(4, <<>>, <<>>, <<Parameter(1, <<"r">>, <<"1", ":", "2">>)>>, 2500,
                    Undefined)}

RoundTripStores ==
    {ps \in UNION {[1..n -> RoundTripEntries] : n \in 0..MaxRoundTripStore} :
        \A i, j \in 1..Len(ps) : i # j => ps[i].id # ps[j].id}

Locales == {"en-US", "de-DE"}

RoundTripInit == \E ps \in RoundTripStores : InitWith(ps, {})

RoundTripNext ==
    \/ \E view \in {"all", "report"} : UserIdle /\ PageUsable /\ HandleViewChange(view)
    \/ UserIdle /\ ReportShown /\ HandleImportFromExcel
    \/ \E locale \in Locales, loadImages \in BOOLEAN :
          ImportParsed(ExportToExcel(prompts, locale), loadImages)
    \/ \E files \in FolderInputs, readOk \in BOOLEAN : FolderChosen(files, readOk)
    \/ FolderNotChosen

RoundTripSpec == RoundTripInit /\ [][RoundTripNext]_vars

(***************************************************************************)
(* ArchiveSpec: the archive exportToExcelWithImages writes for the store,  *)
(* workbook and DATA folder, given back to the import.  An embedded image  *)
(* is a data URL "data:" + MIME type + ";base64," + bytes; a file of the   *)
(* DATA folder comes back from the folder picker with the MIME type the    *)
(* browser gives its extension.                                            *)
(***************************************************************************)
MaxArchiveStore == 2

ImgSvg == "data:image/svg+xml;base64,S"
ImgSvgAsPng == "data:image/png;base64,S"

\* base64.split(';base64,'): the MIME type and the bytes of a data URL
ImageParts(base64) ==
    CASE base64 = ImgX -> [type |-> <<"i", "m", "a", "g", "e", "/", "p", "n", "g">>, bytes |-> "X"]
      [] base64 = ImgSvgAsPng -> [type |-> <<"i", "m", "a", "g", "e", "/", "p", "n", "g">>,
                                  bytes |-> "S"]
      [] base64 = ImgY -> [type |-> <<"i", "m", "a", "g", "e", "/", "j", "p", "e", "g">>,
                           bytes |-> "Y"]
      [] base64 = ImgSvg -> [type |-> <<"i", "m", "a", "g", "e", "/", "s", "v", "g", "+",
                                        "x", "m", "l">>, bytes |-> "S"]

\* getImageExtension: /^data:image\/(\w+);base64,/ or 'png'
GetImageExtension(base64) ==
    LET type == ImageParts(base64).type
        sub == SubSeq(type, 7, Len(type))
    IN  IF /\ StartsWith(type, <<"i", "m", "a", "g", "e", "/">>)
           /\ sub # <<>>
           /\ \A i \in 1..Len(sub) :
                 \/ \E k \in 1..Len(LowerLetters) : sub[i] \in {LowerLetters[k], UpperLetters[k]}
                 \/ IsDigit(sub[i]) \/ sub[i] = "_"
        THEN sub
        ELSE <<"p", "n", "g">>

\* String(n)
RECURSIVE ToDigits(_)
ToDigits(n) ==
    IF n < 10 THEN <<Digits[n + 1]>> ELSE ToDigits(n \div 10) \o <<Digits[(n % 10) + 1]>>

\* FileReader.readAsDataURL of a file of the DATA folder: the type is the one
\* the browser gives the extension, the bytes are those base64ToBlob wrote
ReadBack(ext, bytes) ==
    CASE ext = <<"p", "n", "g">> /\ bytes = "X" -> ImgX
      [] ext = <<"j", "p", "e", "g">> /\ bytes = "Y" -> ImgY
      [] ext = <<"p", "n", "g">> /\ bytes = "S" -> ImgSvgAsPng

\* dataFolder.file(`${promptNumber}_Before.${ext}`, base64ToBlob(image)), as
\* the folder picker hands the file back
ArchiveFile(promptNumber, slot, base64) ==
    LET ext == GetImageExtension(base64)
    IN  [name |-> ToDigits(promptNumber) \o slot \o ext,
         isImage |-> ext \in {<<"p", "n", "g">>, <<"j", "p", "e", "g">>},
         base64 |-> ReadBack(ext, ImageParts(base64).bytes)]

\* the DATA folder of the archive exportToExcelWithImages downloads
RECURSIVE ExportImagesFrom(_, _)
ExportImagesFrom(ps, i) ==
    IF i > Len(ps) THEN <<>>
    ELSE (IF HasImage(ps[i].beforeImage)
          THEN <<ArchiveFile(i, <<"_", "B", "e", "f", "o", "r", "e", ".">>, ps[i].beforeImage)>>
          ELSE <<>>)
         \o (IF HasImage(ps[i].afterImage)
             THEN <<ArchiveFile(i, <<"_", "A", "f", "t", "e", "r", ".">>, ps[i].afterImage)>>
             ELSE <<>>)
         \o ExportImagesFrom(ps, i + 1)

ArchiveEntry(id, before, after) ==
    [id |-> id, beforeImage |-> before, afterImage |-> after, prompt |-> <<"c">>,
     model |-> <<>>, parameters |-> <<>>, tags |-> <<>>, createdAt |-> 1000 * id,
     isFavorite |-> "false"]

ArchiveStores ==
    {<<>>}
    \cup {<<ArchiveEntry(1, b, a)>> : b, a \in {Undefined, ImgX, ImgY, ImgSvg}}
    \cup {<<ArchiveEntry(2, b, Undefined), ArchiveEntry(1, Undefined, a)>> :
            b, a \in {Undefined, ImgX, ImgY}}

ArchiveInit == \E ps \in ArchiveStores : InitWith(ps, {})

ArchiveNext ==
    \/ \E view \in {"all", "report"} : UserIdle /\ PageUsable /\ HandleViewChange(view)
    \/ UserIdle /\ ReportShown /\ HandleImportFromExcel
    \/ \E locale \in Locales, loadImages \in BOOLEAN :
          ImportParsed(ExportToExcel(prompts, locale), loadImages)
    \/ \E readOk \in BOOLEAN : FolderChosen(ExportImagesFrom(prompts, 1), readOk)
    \/ FolderNotChosen

ArchiveSpec == ArchiveInit /\ [][ArchiveNext]_vars

(***************************************************************************)
(* ReattachSpec: the import with the image folder step, on folders of up   *)
(* to MaxFiles files.  Each file carries, next to what the program reads   *)
(* (name, isImage, base64), the entry number and slot its name stands for  *)
(* (number 0 when the name is not of the form {n}_Before.{ext} or          *)
(* {n}_After.{ext}).                                                       *)
(***************************************************************************)
MaxFiles == 2

FolderFile(name, isImage, base64, number, slot) ==
    [name |-> name, isImage |-> isImage, base64 |-> base64, number |-> number, slot |-> slot]

ReattachFiles ==
    {FolderFile(<<"1", "_", "B", "e", "f", "o", "r", "e", ".", "p", "n", "g">>,
                TRUE, ImgX, 1, "before"),
     FolderFile(<<"1", "_", "B", "E", "F", "O", "R", "E", ".", "j", "p", "g">>,
                TRUE, ImgY, 1, "before"),
     FolderFile(<<"2", "_", "a", "f", "t", "e", "r", ".", "J", "P", "G">>,
                TRUE, ImgY, 2, "after"),
     FolderFile(<<"1", "0", "_", "B", "e", "f", "o", "r", "e", ".", "p", "n", "g">>,
                TRUE, ImgX, 10, "before"),
     FolderFile(<<"x", "1", "_", "A", "f", "t", "e", "r", ".", "p", "n", "g">>,
                TRUE, ImgX, 0, "none"),
     FolderFile(<<"2", "_", "B", "e", "f", "o", "r", "e", ".", "t", "x", "t">>,
                FALSE, ImgX, 2, "before")}

ReattachFolders == UNION {[1..n -> ReattachFiles] : n \in 0..MaxFiles}

\* workbooks of 0..MaxRows rows that an export wrote
ReattachWorkbooks ==
    {[ok |-> TRUE, rows |-> [i \in 1..n |-> Row(100 + i, MaxClock, favorite)]] :
        n \in 0..MaxRows, favorite \in {"Yes", "No"}}

ReattachNext ==
    \/ \E view \in {"all", "report"} : UserIdle /\ PageUsable /\ HandleViewChange(view)
    \/ UserIdle /\ ReportShown /\ HandleImportFromExcel
    \/ \E file \in ReattachWorkbooks, loadImages \in BOOLEAN : ImportParsed(file, loadImages)
    \/ \E files \in ReattachFolders, readOk \in BOOLEAN : FolderChosen(files, readOk)
    \/ FolderNotChosen

ReattachSpec == Init /\ [][ReattachNext]_vars

\* the folder picker is answered, with a file list or without one
FolderAnswered ==
    \/ \E files \in ReattachFolders, readOk \in BOOLEAN : FolderChosen(files, readOk)
    \/ FolderNotChosen

\* ReattachSpec with a user who answers the folder picker
ImportLiveSpec == Init /\ [][ReattachNext]_vars /\ WF_vars(FolderAnswered)

(***************************************************************************)
(* ViewerSpec: the image viewer of the card of TagStore, opened, zoomed,   *)
(* dragged and closed.  The pointer visits MousePoints; a drag is followed while the   *)
(* image stays within MaxOffset of its place.                              *)
(***************************************************************************)
MaxOffset == 1

MousePoints == {<<0, 0>>, <<1, 0>>, <<1, 1>>}
MouseButtons == {0, 2}
Keys == {"Escape", "+", "=", "-", "_", "0", "a"}

InFrame(client) ==
    \/ ~viewer.isDragging
    \/ /\ client[1] - viewer.dragStart[1] \in -MaxOffset..MaxOffset
       /\ client[2] - viewer.dragStart[2] \in -MaxOffset..MaxOffset

ViewerNext ==
    \/ \E i \in 1..Len(prompts), slot \in {"beforeImage", "afterImage"} :
           CardShown(prompts[i].id) /\ OpenViewer(prompts[i], slot)
    \/ CloseViewer
    \/ \E deltaY \in {-1, 1} : viewer.isOpen /\ HandleWheel(deltaY)
    \/ \E button \in MouseButtons, client \in MousePoints :
           viewer.isOpen /\ HandleMouseDown(button, client)
    \/ \E client \in MousePoints : viewer.isOpen /\ InFrame(client) /\ HandleMouseMove(client)
    \/ viewer.isOpen /\ HandleMouseUp
    \/ viewer.isOpen /\ HandleZoomIn
    \/ viewer.isOpen /\ HandleZoomOut
    \/ viewer.isOpen /\ HandleReset
    \/ \E key \in Keys : HandleKeyDown(key)

ViewerSpec == TagInit /\ [][ViewerNext]_vars

(***************************************************************************)
(* Properties.                                                             *)
(***************************************************************************)
Positions(ps) == 1..Len(ps)

\* the positions of ps, in order, that Keep admits: the k-th of them
KthOf(S, k) == CHOOSE i \in S : Cardinality({j \in S : j <= i}) = k

\* ps with the entries at the positions outside S dropped, the rest in order
IsRestriction(after, before, S) ==
    /\ Len(after) = Cardinality(S)
    /\ \A k \in 1..Len(after) : after[k] = before[KthOf(S, k)]

\* C1: no two entries of the store have the same id.
C1_UniqueIds ==
    \A i, j \in Positions(prompts) : i # j => prompts[i].id # prompts[j].id

\* C2: upserting an entry whose id is in the store leaves the number of entries
\* unchanged, puts the entry at a position that held that id, and leaves every
\* other position as it was.
C2_UpsertExisting ==
    [][(last'.op = "savePrompt" /\ last'.entry.id \in Ids(prompts)) =>
          LET e == last'.entry
          IN  /\ Len(prompts') = Len(prompts)
              /\ \E i \in Positions(prompts) :
                    /\ prompts[i].id = e.id
                    /\ prompts'[i] = e
                    /\ \A j \in Positions(prompts) \ {i} : prompts'[j] = prompts[j]]_vars

C2_Witness ==
    /\ last.op = "savePrompt"
    /\ last.flag
    /\ Len(prompts) = 3
    /\ prompts[2] = last.entry
    /\ prompts[1].id # last.id
    /\ prompts[3].id # last.id

\* C3: upserting an entry whose id is not in the store adds exactly one entry,
\* at the front, and leaves the stored entries unchanged and in order behind it.
C3_UpsertNew ==
    [][(last'.op = "savePrompt" /\ last'.entry.id \notin Ids(prompts)) =>
          /\ Len(prompts') = Len(prompts) + 1
          /\ prompts'[1] = last'.entry
          /\ \A i \in Positions(prompts) : prompts'[i + 1] = prompts[i]]_vars

C3_Witness ==
    /\ last.op = "savePrompt"
    /\ ~last.flag
    /\ Len(prompts) = 3
    /\ prompts[1] = last.entry

\* C4: an edit-save and a favorite toggle leave the id and the createdAt of
\* every entry of the store as they were.
C4_CreatedAtKept ==
    [][(\/ last'.op = "save" /\ editingPrompt # NullEntry
        \/ last'.op = "toggleFavorite") =>
          /\ Len(prompts') = Len(prompts)
          /\ \A i \in Positions(prompts) :
                /\ prompts'[i].id = prompts[i].id
                /\ prompts'[i].createdAt = prompts[i].createdAt]_vars

\* the same letter, in either case
SameLetter(a, b) ==
    \/ a = b
    \/ \E i \in 1..26 : {a, b} = {UpperLetters[i], LowerLetters[i]}

\* term occurs in text at some offset, letter case aside
OccursIn(term, text) ==
    \E offset \in 0..Len(text) :
        /\ offset + Len(term) <= Len(text)
        /\ \A k \in 1..Len(term) : SameLetter(text[offset + k], term[k])

TagsOf(p) == {p.tags[i] : i \in 1..Len(p.tags)}

ViewAdmits(p) == currentView # "favorites" \/ p.isFavorite = "true"

InFiltered(p) == \E k \in Positions(Filtered) : Filtered[k] = p

\* C5: an entry of the store is in the filtered result exactly when the view
\* admits it, the search term occurs (letter case aside) in its prompt, in its
\* model when it has one, or in one of its tags, and no tag is selected or one
\* of its tags is selected; the result holds nothing else.
C5_FilterMembership ==
    /\ \A i \in Positions(prompts) :
          LET p == prompts[i]
          IN  InFiltered(p) <=>
                /\ ViewAdmits(p)
                /\ \/ OccursIn(searchTerm, p.prompt)
                   \/ p.model # <<Undefined>> /\ p.model # <<>>
                        /\ OccursIn(searchTerm, p.model)
                   \/ \E t \in TagsOf(p) : OccursIn(searchTerm, t)
                /\ selectedTags = {} \/ TagsOf(p) \cap selectedTags # {}
    /\ \A k \in Positions(Filtered) : \E i \in Positions(prompts) : prompts[i] = Filtered[k]
    /\ \A k, l \in Positions(Filtered) : k # l => Filtered[k] # Filtered[l]

\* an entry tagged x alone is kept under the selection {x, y}, by a search
\* term in the other letter case, while another entry is filtered out
C5_Witness ==
    /\ selectedTags = {<<"x">>, <<"y">>}
    /\ searchTerm = <<"a">>
    /\ \E k \in Positions(Filtered) :
          Filtered[k].tags = <<<<"x">>>> /\ Filtered[k].prompt = <<"A", "b">>
    /\ Len(Filtered) < Len(prompts)

PositionIn(ps, p) == CHOOSE i \in Positions(ps) : ps[i] = p

\* C6: the filtered result is in descending order of createdAt, entries of
\* equal createdAt are in the order the store has them, and with an empty
\* search term and no selected tag every entry the view admits is in it.
C6_FilterOrder ==
    /\ \A k, l \in Positions(Filtered) :
          k < l =>
            /\ Filtered[k].createdAt >= Filtered[l].createdAt
            /\ Filtered[k].createdAt = Filtered[l].createdAt =>
                  PositionIn(prompts, Filtered[k]) < PositionIn(prompts, Filtered[l])
    /\ (searchTerm = <<>> /\ selectedTags = {}) =>
          \A i \in Positions(prompts) : ViewAdmits(prompts[i]) => InFiltered(prompts[i])

\* three entries, two of them created at the same time, shown in another order
\* than the store's
C6_Witness ==
    /\ searchTerm = <<>>
    /\ selectedTags = {}
    /\ currentView = "all"
    /\ Len(Filtered) = 3
    /\ Filtered # prompts
    /\ Filtered[2].createdAt = Filtered[3].createdAt
    /\ last.op = "ui"

\* pages first..total of fp, one after the other
RECURSIVE PagesFrom(_, _, _)
PagesFrom(fp, first, total) ==
    IF first > total THEN <<>>
    ELSE paginatedPrompts(fp, first) \o PagesFrom(fp, first + 1, total)

\* C7: every page p of 1..totalPages has at most ITEMS_PER_PAGE entries, which
\* are the entries of the filtered sequence from offset (p-1)*ITEMS_PER_PAGE up
\* to p*ITEMS_PER_PAGE, and the pages put one after the other are the filtered
\* sequence.
C7_Pages ==
    /\ \A p \in 1..totalPages(Filtered) :
          LET page == paginatedPrompts(Filtered, p)
              from == (p - 1) * ITEMS_PER_PAGE
              upto == IF p * ITEMS_PER_PAGE < Len(Filtered) THEN p * ITEMS_PER_PAGE
                      ELSE Len(Filtered)
          IN  /\ Len(page) <= ITEMS_PER_PAGE
              /\ Len(page) = upto - from
              /\ \A i \in 1..Len(page) : page[i] = Filtered[from + i]
    /\ PagesFrom(Filtered, 1, totalPages(Filtered)) = Filtered
    /\ Shown = IF currentView = "report" THEN <<>>
               ELSE paginatedPrompts(Filtered, currentPage)

\* the second page shown, with the one entry that the first has no room for
C7_Witness ==
    /\ Len(Filtered) = ITEMS_PER_PAGE + 1
    /\ totalPages(Filtered) = 2
    /\ currentPage = 2
    /\ Len(Shown) = 1
    /\ last.op = "setPage"

\* C8: after an operation and the page effect that follows it, the current page
\* is 1 when the filtered result is empty and otherwise one of its pages.
C8_PageInRange ==
    IF Len(Filtered) = 0
    THEN currentPage = 1
    ELSE currentPage \in 1..totalPages(Filtered)

\* every character of s is white space
Blank(s) == \A i \in 1..Len(s) : s[i] \in {" ", "\t", "\n", "\r"}

\* C9: a save in the editor with a blank prompt puts an error on the prompt
\* field, a save with neither image puts an error on the image field, and in
\* both cases the store is unchanged, no entry is handed over and the editor
\* stays open; a save with a non-blank prompt and an image hands the staged
\* entry to the store, once, and closes the editor.
C9_EditorValidation ==
    [][last'.op \in {"save", "saveRejected"} =>
          LET blank == Blank(prompt)
              noImage == beforeImage = Undefined /\ afterImage = Undefined
          IN  /\ blank => "prompt" \in errors'
              /\ noImage => "image" \in errors'
              /\ (blank \/ noImage) =>
                    /\ last'.op = "saveRejected"
                    /\ prompts' = prompts
                    /\ isModalOpen'
              /\ ~(blank \/ noImage) =>
                    /\ last'.op = "save"
                    /\ ~isModalOpen'
                    /\ last'.entry.prompt = prompt
                    /\ last'.entry.beforeImage = beforeImage
                    /\ last'.entry.afterImage = afterImage
                    /\ \/ /\ Len(prompts') = Len(prompts) + 1
                          /\ prompts'[1] = last'.entry
                          /\ \A i \in Positions(prompts) : prompts'[i + 1] = prompts[i]
                       \/ /\ Len(prompts') = Len(prompts)
                          /\ \E i \in Positions(prompts) :
                                /\ prompts'[i] = last'.entry
                                /\ \A j \in Positions(prompts) \ {i} :
                                      prompts'[j] = prompts[j]]_vars

\* a save of a whitespace-only prompt with an image set was turned down
C9_Witness ==
    /\ last.op = "saveRejected"
    /\ isModalOpen
    /\ prompt = <<" ">>
    /\ afterImage # Undefined
    /\ errors = {"prompt"}

\* C10: a confirmed delete of id leaves exactly the entries with another id, in
\* their order, and leaves the store as it is when no entry has that id.
C10_Delete ==
    [][(last'.op = "delete" /\ last'.flag) =>
          /\ IsRestriction(prompts', prompts,
                           {i \in Positions(prompts) : prompts[i].id # last'.id})
          /\ last'.id \notin Ids(prompts) => prompts' = prompts]_vars

C10_Witness ==
    /\ last.op = "delete"
    /\ last.flag
    /\ Len(prompts) = 1
    /\ last.id \notin Ids(prompts)

\* C11: a confirmed bulk delete leaves exactly the entries whose id is not
\* selected, in their order, in one update of the store, and leaves the
\* selection empty.
C11_BulkDelete ==
    [][(last'.op = "bulkDelete" /\ last'.flag) =>
          /\ IsRestriction(prompts', prompts,
                           {i \in Positions(prompts) : prompts[i].id \notin selectedIds})
          /\ selectedIds' = {}]_vars

\* a bulk delete that took some entries and left one
C11_Witness ==
    /\ last.op = "bulkDelete"
    /\ last.flag
    /\ selectedIds = {}
    /\ Len(prompts) = 1

\* C12: a single or bulk delete whose confirmation is declined leaves the store
\* and the selection as they were.
C12_DeclinedDelete ==
    [][(last'.op \in {"delete", "bulkDelete"} /\ ~last'.flag) =>
          /\ prompts' = prompts
          /\ selectedIds' = selectedIds]_vars

\* a single delete of a stored entry was declined
C12_Witness ==
    /\ last.op = "delete"
    /\ ~last.flag
    /\ last.id \in Ids(prompts)
    /\ selectedIds # {}

\* the favorite status of an entry: an unset flag counts as off
Favorite(p) == p.isFavorite = "true"

SameButFavorite(p, q) ==
    /\ DOMAIN p = DOMAIN q
    /\ \A f \in DOMAIN p \ {"isFavorite"} : p[f] = q[f]

\* C13: toggleFavorite(id) inverts the favorite status of the entries with that
\* id and leaves their other fields, every other entry and every position as
\* they were; it leaves the store as it is when no entry has the id; and two
\* toggles of one id give back the favorite status of every entry.
C13_ToggleFavorite ==
    [][/\ \A id \in ToggleIds :
            LET twice == ToggleFavorite(ToggleFavorite(prompts, id), id)
            IN  /\ Len(twice) = Len(prompts)
                /\ \A i \in Positions(prompts) :
                      /\ Favorite(twice[i]) = Favorite(prompts[i])
                      /\ SameButFavorite(twice[i], prompts[i])
       /\ last'.op = "toggleFavorite" =>
            /\ Len(prompts') = Len(prompts)
            /\ \A i \in Positions(prompts) :
                  IF prompts[i].id = last'.id
                  THEN /\ Favorite(prompts'[i]) = ~Favorite(prompts[i])
                       /\ SameButFavorite(prompts'[i], prompts[i])
                  ELSE prompts'[i] = prompts[i]
            /\ last'.id \notin Ids(prompts) => prompts' = prompts]_vars

\* the star of one entry was switched off next to an entry with another id
C13_Witness ==
    /\ last.op = "toggleFavorite"
    /\ Len(prompts) = 2
    /\ prompts[1].id = last.id
    /\ prompts[1].isFavorite = "false"
    /\ prompts[2].id # last.id

\* the model of an entry, none when it is unset or empty
ModelOf(p) == IF p.model = <<Undefined>> THEN <<>> ELSE p.model

\* the parameters of an entry as key/value pairs, in order
KeyValues(p) ==
    [i \in 1..Len(p.parameters) |-> <<p.parameters[i].key, p.parameters[i].value>>]

\* C14: importing the workbook that an export of the store wrote gives, entry
\* by entry, the same prompt, model, tags, parameters as key/value pairs in
\* order and favorite status, with both images unset.
C14_RoundTrip ==
    [][(importPc = "parsing" /\ last'.op = "import") =>
          /\ Len(prompts') = Len(prompts)
          /\ \A i \in Positions(prompts) :
                /\ prompts'[i].prompt = prompts[i].prompt
                /\ ModelOf(prompts'[i]) = ModelOf(prompts[i])
                /\ prompts'[i].tags = prompts[i].tags
                /\ KeyValues(prompts'[i]) = KeyValues(prompts[i])
                /\ Favorite(prompts'[i]) = Favorite(prompts[i])
                /\ prompts'[i].beforeImage = Undefined
                /\ prompts'[i].afterImage = Undefined]_vars

\* the images of the image files of a folder whose name stands for slot `slot`
\* of entry n
ImagesFor(files, n, slot) ==
    {files[k].base64 : k \in {j \in 1..Len(files) :
        files[j].isImage /\ files[j].number = n /\ files[j].slot = slot}}

\* an entry with both image slots blanked
WithoutImages(p) == [p EXCEPT !.beforeImage = Undefined, !.afterImage = Undefined]

\* now is was with the images of files attached by entry number and slot
ReattachedEntry(is, was, files, n) ==
    /\ WithoutImages(is) = WithoutImages(was)
    /\ IF ImagesFor(files, n, "before") = {}
       THEN is.beforeImage = was.beforeImage
       ELSE is.beforeImage \in ImagesFor(files, n, "before")
    /\ IF ImagesFor(files, n, "after") = {}
       THEN is.afterImage = was.afterImage
       ELSE is.afterImage \in ImagesFor(files, n, "after")

Reattached(after, before, files) ==
    /\ DOMAIN after = DOMAIN before
    /\ \A i \in Positions(before) : ReattachedEntry(after[i], before[i], files, i)

\* C15: reattachment gives the entry at position n the image of a file named
\* {n}_Before.{ext} or {n}_After.{ext}, in any letter case, as its before or
\* after image, leaves a slot without such a file as it was, and leaves the
\* number, the order and the other fields of the entries as they were, for
\* every folder that may be picked for the entries an import parsed; the store
\* gets the result for the folder picked.
C15_Reattachment ==
    [][/\ last'.op = "importParsed" =>
            \A files \in ReattachFolders :
                Reattached(MatchImagesToPrompts(importedPrompts',
                                                LoadImagesFromFolder(files)),
                           importedPrompts', files)
       /\ (importPc = "folder" /\ last'.op = "import" /\ last'.flag) =>
            \E files \in ReattachFolders : Reattached(prompts', importedPrompts, files)]_vars

\* two entries imported: the first got a before image, the second an after
\* image, and the slots without a file are unset
C15_Witness ==
    /\ last.op = "import"
    /\ last.flag
    /\ Len(prompts) = 2
    /\ prompts[1].beforeImage = ImgX
    /\ prompts[1].afterImage = Undefined
    /\ prompts[2].beforeImage = Undefined
    /\ prompts[2].afterImage = ImgY

\* C16: when the import of the workbook or the load of the image folder
\* throws, the store is what it was before the import started.
C16_FailureLeavesStore ==
    [][(\/ last'.op = "importFailed"
        \/ importPc = "folder" /\ last'.op = "import" /\ ~last'.flag) =>
          prompts' = prompts]_vars

\* after is what one of upsert, delete, deleteMany or toggleFavorite makes of before
ByStoreOperation(before, after) ==
    \/ \E i \in Positions(after) : after = SavePrompt(before, after[i])
    \/ \E id \in Ids(before) : after = DeletePrompt(before, id)
    \/ \E ids \in SUBSET Ids(before) : after = BulkDelete(before, ids)
    \/ \E id \in Ids(before) : after = ToggleFavorite(before, id)

\* C17: every step that changes the store's sequence of entries changes it as
\* one upsert, one delete, one deleteMany or one toggleFavorite does.
C17_FourOperations ==
    [][prompts' # prompts => ByStoreOperation(prompts, prompts')]_vars

\* C18: a file read or URL fetch started in an earlier editing session, when
\* it settles while the editor is open, leaves the staged before and after
\* images of that later session as they are.
C18_EarlierSessionLoad ==
    [][\A load \in imageLoads :
          (load.earlierSession /\ load \notin imageLoads' /\ isModalOpen) =>
              UNCHANGED <<beforeImage, afterImage>>]_vars

\* a data URL of image data
IsImageData(img) == img \in {ImgX, ImgY}

\* C20: a URL load that settles either stages image data in its slot, or
\* leaves both staged images as they are and is reported by the alert.
C20_UrlLoadFailure ==
    [][\A load \in imageLoads :
          (load.kind = "url" /\ load \notin imageLoads') =>
              \/ /\ IsImageData(IF load.slot = "before" THEN beforeImage' ELSE afterImage')
                 /\ last'.op = "imageLoaded"
              \/ /\ UNCHANGED <<beforeImage, afterImage>>
                 /\ last'.op = "imageLoadAlert"]_vars

\* C19: a PDF export that waits for the dimensions of an image eventually
\* ends, by saving the file or by failing.
C19_PdfExportEnds ==
    (pdfExport.pc \in {"before", "after"}) ~> (pdfExport.pc \in {"saved", "failed"})

\* C21: a successful save stores the committed tags in order, followed by the
\* trimmed pending tag input when that is non-blank and not yet a tag; the
\* stored list has no duplicate and no blank tag.
C21_SavedTags ==
    [][last'.op = "save" =>
          LET saved == last'.entry.tags
              pending == Trim(tagInput)
              isTag == \E i \in Positions(tags) : tags[i] = pending
          IN  /\ \/ (Blank(tagInput) \/ isTag) /\ saved = tags
                 \/ ~Blank(tagInput) /\ ~isTag /\ saved = tags \o <<pending>>
              /\ \A i, j \in Positions(saved) : i # j => saved[i] # saved[j]
              /\ \A i \in Positions(saved) : ~Blank(saved[i])
              /\ \E k \in Positions(prompts') : prompts'[k].tags = saved]_vars

\* a save folded the pending input, typed with spaces around it, into the tags
C21_Witness ==
    /\ last.op = "save"
    /\ tagInput = <<" ", "a", " ">>
    /\ tags = <<<<"b">>>>
    /\ last.entry.tags = <<<<"b">>, <<"a">>>>

\* the rows of params, in order, whose position is in keep
RowsAt(params, keep) ==
    [k \in 1..Cardinality(keep) |-> params[KthOf(keep, k)]]

\* C22: a successful save stores exactly the staged parameter rows whose key
\* has a character other than white space, in their staged order and as
\* staged, whatever their value.
C22_SavedParameters ==
    [][last'.op = "save" =>
          last'.entry.parameters =
              RowsAt(parameters, {i \in Positions(parameters) : ~Blank(parameters[i].key)})]_vars

\* a save dropped a row with an empty key and a value, and kept a row with a
\* key and an empty value
C22_Witness ==
    /\ last.op = "save"
    /\ Len(parameters) = 2
    /\ parameters[1].key = <<>> /\ parameters[1].value = <<"k">>
    /\ parameters[2].key = <<"k">> /\ parameters[2].value = <<>>
    /\ last.entry.parameters = <<parameters[2]>>

\* C22 as stated: a successful save stores exactly the staged parameter rows
\* with a non-empty key.
C22_NonEmptyKeys ==
    [][last'.op = "save" =>
          last'.entry.parameters =
              RowsAt(parameters, {i \in Positions(parameters) : parameters[i].key # <<>>})]_vars

\* the entries a PDF export was started with
PdfExported(export) ==
    IF export.pc = "idle" THEN {}
    ELSE IF export.pc = "bulk" THEN {export.entries[i] : i \in Positions(export.entries)}
    ELSE {export.entry}

\* C23: Export All to PDF, pressed on a store that is not empty, starts an
\* export of every entry of the store.
C23_ExportAll ==
    [][(last'.op = "exportAll" /\ prompts # <<>>) =>
          /\ last'.flag
          /\ PdfExported(pdfExport') = {prompts[i] : i \in Positions(prompts)}]_vars

\* C24: an edit-save leaves the favorite status of every entry of the store,
\* the edited one included, as it was.
C24_EditKeepsFavorite ==
    [][(last'.op = "save" /\ editingPrompt # NullEntry) =>
          /\ Len(prompts') = Len(prompts)
          /\ \A i \in Positions(prompts) : Favorite(prompts'[i]) = Favorite(prompts[i])]_vars

\* an entry with a non-blank prompt and at least one of its images set
ValidEntry(p) == ~Blank(p.prompt) /\ (HasImage(p.beforeImage) \/ HasImage(p.afterImage))

\* C25: the entry a save of the editor puts in the store has, at that save, a
\* non-blank prompt and at least one of its images set, also when the entry
\* edited came from an import without them.
C25_SavedEntryValid ==
    [][last'.op = "save" =>
          /\ ValidEntry(last'.entry)
          /\ \E i \in Positions(prompts') : prompts'[i] = last'.entry]_vars

\* an imported entry was edited and saved with an image, next to an imported
\* entry that has none
C25_Witness ==
    /\ last.op = "save" /\ last.flag
    /\ \E i, j \in Positions(prompts) :
          /\ prompts[i] = last.entry /\ ValidEntry(prompts[i])
          /\ ~ValidEntry(prompts[j])

\* C25 as stated: every entry of the store has a non-blank prompt and at least
\* one of its images set.
C25_StoreEntriesValid ==
    \A i \in Positions(prompts) : ValidEntry(prompts[i])

\* C26: every selected id is the id of an entry of the store.
C26_SelectionInStore ==
    \A id \in selectedIds : \E i \in Positions(prompts) : prompts[i].id = id

\* C27: every selected filter tag is a tag of an entry of the store.
C27_SelectedTagsExist ==
    \A tag \in selectedTags :
        \E i \in Positions(prompts) : \E k \in Positions(prompts[i].tags) :
            prompts[i].tags[k] = tag

\* C28: the archive of the store, imported and its DATA folder reattached,
\* gives as many entries as the store had, with the before and after image of
\* the entry at the same position.
C28_ArchiveRoundTrip ==
    [][/\ importPc = "parsing" => last'.op # "importFailed"
       /\ (importPc = "folder" /\ last'.op = "import" /\ last'.flag) =>
             /\ Len(prompts') = Len(prompts)
             /\ \A i \in Positions(prompts) :
                   /\ prompts'[i].beforeImage = prompts[i].beforeImage
                   /\ prompts'[i].afterImage = prompts[i].afterImage]_vars

\* C29: once a workbook of n rows is parsed and the image step accepted, the
\* import eventually ends with its n entries as the store.
C29_ImportLands ==
    \A n \in 0..MaxRows :
        (importPc = "folder" /\ Len(importedPrompts) = n)
            ~> (importPc = "idle" /\ last.op = "import" /\ Len(prompts) = n)

\* C30: in the image viewer the scale stays within [0.5, 5] whatever the
\* zoom, wheel, reset, drag and key events; opening and reset both set the
\* scale to 1 and the position to (0, 0); the position otherwise changes only
\* on a mouse move while a drag is active, and a drag becomes active only on
\* a left-button press.
C30_ViewerBounded ==
    [][/\ viewer'.scale \in MinScale..MaxScale
       /\ (last'.op \in {"openViewer", "reset"}
             => viewer'.scale = 100 /\ viewer'.position = <<0, 0>>)
       /\ (viewer'.position # viewer.position
             => \/ viewer'.position = <<0, 0>> /\ last'.op \in {"openViewer", "reset", "closeViewer"}
                \/ viewer.isDragging /\ last'.op = "mouseMove")
       /\ (viewer'.isDragging /\ ~viewer.isDragging
             => last'.op = "mouseDown" /\ last'.id = 0)]_vars

\* a drag has moved the image while the scale stands at a limit
C30_Witness ==
    /\ viewer.isOpen
    /\ last.op = "mouseMove"
    /\ viewer.isDragging
    /\ viewer.position # <<0, 0>>
    /\ viewer.scale \in {MinScale, MaxScale}

====
